---- MODULE Spec2Model ----
\* AllocX: the free-list heap engine (FreeListAllocator) and the fixed-chunk
\* pool (PoolAllocator), modelled over their backing bytes.
\*
\* The heap's backing region is modelled byte by byte, because the code reads
\* it byte by byte: deallocate() recovers a block header by scanning backwards
\* from the user pointer and testing whatever bytes lie there.  A BlockHeader
\* is laid out as the LP64 ABI lays it out: size at +0 (8 bytes), next at +8
\* (8 bytes), is_free at +16 (1 byte), padding at +17 (1 byte), 6 bytes of
\* struct padding that no assignment ever writes; words are little-endian.
EXTENDS Integers, Sequences, FiniteSets, TLC

VARIABLES heap,       \* the FreeListAllocator object and its backing bytes
          hlive,      \* history: the allocations handed out and not yet returned
          hlast,      \* history: the last heap call, its arguments and result
          hops,       \* number of heap calls made so far
          pool,       \* the PoolAllocator object and the first word of each chunk
          plive,      \* history: the chunks handed out and not yet returned
          plast,      \* history: the last pool call, its arguments and result
          pfreed,     \* history: the chunks given back and not handed out since, oldest first
          pops,       \* number of pool calls made so far
          stack,      \* the StackAllocator object
          slast,      \* history: the last bump call, its arguments and result
          strail,     \* history: the bump allocations made since the last savepoint
          sops,       \* number of bump calls made so far
          objs,       \* the engine objects of a program that moves them around
          mlast,      \* history: the last construction, move or destruction
          mops,       \* number of moves and destructions made so far
          news,       \* history: the addresses operator new has returned
          dels,       \* history: the addresses passed to operator delete, in order
          thr,        \* the threads calling through one ThreadSafeAllocator
          mutex,      \* the wrapper's m_mutex: the thread that holds it, or 0
          alast,      \* history: the last call made through an STLAdapter
          alive,      \* history: the arrays obtained through an STLAdapter and not yet returned
          twin,       \* a second FreeListAllocator given the same calls as heap
          tlive,      \* history: the twin's allocations not yet returned
          tlast       \* history: the twin's last call and its result

hvars == <<heap, hlive, hlast, hops>>
pvars == <<pool, plive, plast, pfreed, pops>>
svars == <<stack, slast, strail, sops>>
mvars == <<objs, mlast, mops, news, dels>>
tvars == <<thr, mutex>>
avars == <<alast, alive>>
wvars == <<twin, tlive, tlast>>
vars == <<heap, hlive, hlast, hops, pool, plive, plast, pfreed, pops,
          stack, slast, strail, sops, objs, mlast, mops, news, dels,
          thr, mutex, alast, alive, twin, tlive, tlast>>

-----------------------------------------------------------------------------
\* Program constants.

\* sizeof(BlockHeader) on LP64: 8 + 8 + 1 + 1, rounded up to alignof = 8.
HEADER_SIZE == 24
\* sizeof(void*).
MIN_BLOCK_SIZE == 8
\* alignof(std::max_align_t): the default alignment and the scan's reach.
MAX_ALIGN == 16
\* alignof(BlockHeader): that of its size_t and pointer members.
HEADER_ALIGN == 8

\* Field offsets inside a BlockHeader.
OFF_SIZE == 0
OFF_NEXT == 8
OFF_IS_FREE == 16
OFF_PADDING == 17
\* nullptr.
NULL == 0

\* sizeof(void*): the link word at the start of a free chunk.
PTR_SIZE == 8

\* Bounds of the model.
MaxOps == 4            \* heap calls per run
PoolMaxOps == 6        \* pool calls per run
HeapCap == 128         \* bytes of the backing region
\* The region is part of the caller's address space: the bytes that follow it
\* are mapped too, and the model follows the code's writes that far.
Slack == 32

\* The values the model draws its inputs from.
Strategies == {"FirstFit", "BestFit", "WorstFit"}
\* operator new returns 16-aligned storage; the two residues modulo 32.
BaseAddrs == {4096, 4112}
\* What the region holds before init(): zero pages, or a 0xAA pattern.
InitBytes == {0, 170}
\* allocate(size, alignment) calls: the degenerate size, a size below
\* MIN_BLOCK_SIZE, sizes that are and are not multiples of 8, alignments
\* below, at and above the default, and a size of 2^64 - 8 (written -8)
\* whose sum with a padding of 8 wraps.
Requests == {<<0, 16>>, <<4, 16>>, <<8, 1>>, <<10, 16>>, <<10, 32>>, <<40, 8>>,
             <<-8, 16>>}
\* memset values a caller writes into a live payload.
FillBytes == {0}
\* The two ways a build tests a bool byte.
BoolReads == {"test_zero", "flip_low_bit"}

\* Machine words are 64 bits wide.  The model follows a word exactly while
\* its value is below 2^30; a word read from memory whose value is larger
\* reads as BigWord, which compares above every value the model follows.
BigWord == 2^30
\* What a run can end in once the code leaves defined behaviour.
\*   "wild": a header outside the bytes the model follows was dereferenced,
\*           or a write ran past them;
\*   "hang": a list walk never ends (the freelist is cyclic);
\*   "lost": arithmetic on a word beyond the values the model follows.
\*   "abort": an assert() failed.
Statuses == {"ok", "wild", "hang", "lost", "abort"}
\* Results of a block search that did not end in a block or in nullptr.
WILD == -1
HANG == -2
LOST == -3

Max(a, b) == IF a >= b THEN a ELSE b

\* size_t arithmetic outside the heap's memory.  A 64-bit value v is held as
\* v when it is below 2^63 and as v - 2^64 otherwise, so that sums and
\* differences of the values the model follows are exact modulo 2^64; the
\* comparisons are the unsigned ones.
ULe(a, b) == IF (a >= 0) = (b >= 0) THEN a <= b ELSE a >= 0
UGt(a, b) == ~ULe(a, b)
\* The exact (unbounded) sum before + size exceeds limit; before and limit
\* are offsets or block sizes below 2^63.
ExactOver(before, size, limit) == size < 0 \/ before + size > limit
\* std::max on size_t.
UMax(a, b) == IF ULe(a, b) THEN b ELSE a

-----------------------------------------------------------------------------
\* utils.hpp

RECURSIVE BitAnd(_, _)
BitAnd(a, b) ==
  IF a = 0 \/ b = 0 THEN 0
  ELSE (a % 2) * (b % 2) + 2 * BitAnd(a \div 2, b \div 2)

calc_padding(address, alignment) ==
  BitAnd(alignment - BitAnd(address, alignment - 1), alignment - 1)

\* (value + alignment - 1) & ~(alignment - 1), with x & ~m written x - (x & m).
align_up(value, alignment) ==
  (value + alignment - 1) - BitAnd(value + alignment - 1, alignment - 1)

align_pointer(ptr, alignment) == align_up(ptr, alignment)

-----------------------------------------------------------------------------
\* Byte-level access to the backing region of heap object h.

InRegion(h, a, n) == a >= h.m_memory /\ a + n <= h.m_memory + h.m_size

\* The fields of a header at b (size, next, is_free, padding) lie in the bytes
\* the model follows: the region and the Slack bytes after it.
HdrIn(h, b) == b >= h.m_memory /\ b + OFF_PADDING + 1 <= h.m_memory + h.m_size + Slack

\* A little-endian 8-byte word at address a.
RdWord(mem, a) ==
  IF mem[a + 4] = 0 /\ mem[a + 5] = 0 /\ mem[a + 6] = 0 /\ mem[a + 7] = 0
     /\ mem[a + 3] < 64
  THEN mem[a] + 256 * mem[a + 1] + 65536 * mem[a + 2] + 16777216 * mem[a + 3]
  ELSE BigWord

ByteOf(v, i) == IF i >= 4 THEN 0 ELSE (v \div (256 ^ i)) % 256

WrWord(mem, a, v) ==
  [mem EXCEPT ![a] = ByteOf(v, 0), ![a + 1] = ByteOf(v, 1), ![a + 2] = ByteOf(v, 2),
              ![a + 3] = ByteOf(v, 3), ![a + 4] = 0, ![a + 5] = 0, ![a + 6] = 0,
              ![a + 7] = 0]

\* An 8-byte copy (a pointer assignment between two fields in memory).
CopyWord(mem, dst, src) ==
  [mem EXCEPT ![dst] = mem[src], ![dst + 1] = mem[src + 1], ![dst + 2] = mem[src + 2],
              ![dst + 3] = mem[src + 3], ![dst + 4] = mem[src + 4],
              ![dst + 5] = mem[src + 5], ![dst + 6] = mem[src + 6],
              ![dst + 7] = mem[src + 7]]

WrByte(mem, a, v) == [mem EXCEPT ![a] = v]

\* Header fields of the block at address b.
SizeOf(h, b) == RdWord(h.mem, b + OFF_SIZE)
NextOf(h, b) == RdWord(h.mem, b + OFF_NEXT)

\* Reading a bool whose byte is neither 0 nor 1 is undefined; a build either
\* tests the byte against zero or flips its low bit and tests the result.
BoolNot(byte, how) == IF how = "test_zero" THEN byte = 0 ELSE byte # 1

-----------------------------------------------------------------------------
\* FreeListAllocator

\* init(): one free block spanning the region.
init(h) ==
  LET b  == h.m_memory
      m1 == WrWord(h.mem, b + OFF_SIZE, h.m_size - HEADER_SIZE)
      m2 == WrWord(m1, b + OFF_NEXT, NULL)
      m3 == WrByte(m2, b + OFF_IS_FREE, 1)
      m4 == WrByte(m3, b + OFF_PADDING, 0)
  IN [h EXCEPT !.mem = m4, !.m_free_list = b, !.m_used = 0]

\* FreeListAllocator(size, strategy): the region is acquired and init() runs
\* when size > HEADER_SIZE; base is what operator new returns and fill what
\* the storage holds.
Construct(base, size, strategy, fill) ==
  LET h0 == [mem |-> [x \in base .. (base + size + Slack - 1) |-> fill],
             m_memory |-> IF size > HEADER_SIZE THEN base ELSE NULL,
             m_size |-> size, m_used |-> 0,
             m_strategy |-> strategy, m_free_list |-> NULL,
             m_owns_memory |-> TRUE, st |-> "ok"]
  IN IF size > HEADER_SIZE THEN init(h0) ELSE h0

\* FreeListAllocator(buffer, size, strategy).
ConstructBorrowed(buffer, size, strategy, fill) ==
  LET h0 == [mem |-> [x \in buffer .. (buffer + size + Slack - 1) |-> fill],
             m_memory |-> buffer, m_size |-> size, m_used |-> 0,
             m_strategy |-> strategy, m_free_list |-> NULL,
             m_owns_memory |-> FALSE, st |-> "ok"]
  IN IF size > HEADER_SIZE THEN init(h0) ELSE h0

RECURSIVE find_first_fit_from(_, _, _, _, _)
find_first_fit_from(h, current, size, alignment, seen) ==
  IF current = NULL THEN NULL
  ELSE IF ~HdrIn(h, current) THEN WILD
  ELSE IF current \in seen THEN HANG
  ELSE LET padding == calc_padding(current + HEADER_SIZE, alignment)
       IN IF SizeOf(h, current) = BigWord /\ size + padding < 0 THEN LOST
          ELSE IF ULe(size + padding, SizeOf(h, current))
          THEN current
          ELSE find_first_fit_from(h, NextOf(h, current), size, alignment, seen \cup {current})

find_first_fit(h, size, alignment) ==
  find_first_fit_from(h, h.m_free_list, size, alignment, {})

RECURSIVE find_best_fit_from(_, _, _, _, _, _, _)
find_best_fit_from(h, current, best, smallest_suitable, size, alignment, seen) ==
  IF current = NULL THEN best
  ELSE IF ~HdrIn(h, current) THEN WILD
  ELSE IF current \in seen THEN HANG
  ELSE LET padding  == calc_padding(current + HEADER_SIZE, alignment)
           required == size + padding
           csize    == SizeOf(h, current)
       IN IF csize = BigWord /\ (smallest_suitable = BigWord \/ required < 0) THEN LOST
          ELSE IF ULe(required, csize) /\ csize < smallest_suitable
          THEN IF csize = required
               THEN current
               ELSE find_best_fit_from(h, NextOf(h, current), current, csize,
                                       size, alignment, seen \cup {current})
          ELSE find_best_fit_from(h, NextOf(h, current), best, smallest_suitable,
                                  size, alignment, seen \cup {current})

\* smallest_suitable starts at numeric_limits<size_t>::max(), above BigWord.
find_best_fit(h, size, alignment) ==
  find_best_fit_from(h, h.m_free_list, NULL, BigWord + 1, size, alignment, {})

RECURSIVE find_worst_fit_from(_, _, _, _, _, _, _)
find_worst_fit_from(h, current, worst, largest_suitable, size, alignment, seen) ==
  IF current = NULL THEN worst
  ELSE IF ~HdrIn(h, current) THEN WILD
  ELSE IF current \in seen THEN HANG
  ELSE LET padding  == calc_padding(current + HEADER_SIZE, alignment)
           required == size + padding
           csize    == SizeOf(h, current)
       IN IF csize = BigWord /\ (largest_suitable = BigWord \/ required < 0) THEN LOST
          ELSE IF ULe(required, csize) /\ csize > largest_suitable
          THEN find_worst_fit_from(h, NextOf(h, current), current, csize,
                                   size, alignment, seen \cup {current})
          ELSE find_worst_fit_from(h, NextOf(h, current), worst, largest_suitable,
                                   size, alignment, seen \cup {current})

find_worst_fit(h, size, alignment) ==
  find_worst_fit_from(h, h.m_free_list, NULL, 0, size, alignment, {})

\* The status a failed block search leaves the run in.
SearchStatus(block) ==
  IF block = WILD THEN "wild" ELSE IF block = HANG THEN "hang" ELSE "lost"

split_block(h, block, size, padding) ==
  LET new_block == block + HEADER_SIZE + padding + size
  IN IF SizeOf(h, block) = BigWord THEN [h EXCEPT !.st = "lost"]
     ELSE IF ~HdrIn(h, new_block) THEN [h EXCEPT !.st = "wild"]
     ELSE LET remaining == SizeOf(h, block) - size - padding - HEADER_SIZE
              m1 == WrWord(h.mem, new_block + OFF_SIZE, remaining)
              m2 == WrByte(m1, new_block + OFF_IS_FREE, 1)
              m3 == WrByte(m2, new_block + OFF_PADDING, 0)
              m4 == WrWord(m3, block + OFF_SIZE, padding + size)
              m5 == CopyWord(m4, new_block + OFF_NEXT, block + OFF_NEXT)
              m6 == WrWord(m5, block + OFF_NEXT, new_block)
          IN [h EXCEPT !.mem = m6]

\* The walk of remove_free_block: the node whose next is block, or nullptr.
RECURSIVE find_prev(_, _, _, _)
find_prev(h, current, block, seen) ==
  IF current = NULL THEN NULL
  ELSE IF ~HdrIn(h, current) THEN WILD
  ELSE IF current \in seen THEN HANG
  ELSE IF NextOf(h, current) = block THEN current
  ELSE find_prev(h, NextOf(h, current), block, seen \cup {current})

remove_free_block(h, block) ==
  IF h.m_free_list = block
  THEN [h EXCEPT !.m_free_list = NextOf(h, block)]
  ELSE LET current == find_prev(h, h.m_free_list, block, {})
       IN IF current < 0 THEN [h EXCEPT !.st = SearchStatus(current)]
          ELSE IF current # NULL
          THEN [h EXCEPT !.mem = CopyWord(h.mem, current + OFF_NEXT, block + OFF_NEXT)]
          ELSE h

insert_free_block(h, block) ==
  IF h.m_free_list >= BigWord THEN [h EXCEPT !.st = "lost"]
  ELSE [h EXCEPT !.mem = WrWord(h.mem, block + OFF_NEXT, h.m_free_list),
                 !.m_free_list = block]

RECURSIVE coalesce_from(_, _, _)
coalesce_from(h, current, seen) ==
  IF current = NULL THEN h
  ELSE IF ~HdrIn(h, current) THEN [h EXCEPT !.st = "wild"]
  ELSE LET next == NextOf(h, current)
       IN IF next = NULL THEN h
          ELSE IF current \in seen THEN [h EXCEPT !.st = "hang"]
          ELSE IF SizeOf(h, current) = BigWord THEN [h EXCEPT !.st = "lost"]
          ELSE IF current + HEADER_SIZE + SizeOf(h, current) = next
          THEN IF ~HdrIn(h, next) THEN [h EXCEPT !.st = "wild"]
               ELSE IF SizeOf(h, next) = BigWord THEN [h EXCEPT !.st = "lost"]
               ELSE LET m1 == WrWord(h.mem, current + OFF_SIZE,
                                     SizeOf(h, current) + HEADER_SIZE + SizeOf(h, next))
                        m2 == CopyWord(m1, current + OFF_NEXT, next + OFF_NEXT)
                    IN coalesce_from([h EXCEPT !.mem = m2], current, {})
          ELSE coalesce_from(h, next, seen \cup {current})

\* A walk that comes back to a node it left with no merge in between finds
\* the memory as it was then, and so never ends.
coalesce(h) == coalesce_from(h, h.m_free_list, {})

find_block(h, size, alignment) ==
  CASE h.m_strategy = "FirstFit" -> find_first_fit(h, size, alignment)
    [] h.m_strategy = "BestFit"  -> find_best_fit(h, size, alignment)
    [] h.m_strategy = "WorstFit" -> find_worst_fit(h, size, alignment)

\* m_used += HEADER_SIZE + block->size.
allocate_count(h, block) ==
  IF SizeOf(h, block) = BigWord THEN [h EXCEPT !.st = "lost"]
  ELSE [h EXCEPT !.m_used = h.m_used + HEADER_SIZE + SizeOf(h, block)]

\* block->is_free = false; block->padding = static_cast<uint8_t>(padding).
allocate_mark(h, block, padding) ==
  IF h.st # "ok" THEN h
  ELSE allocate_count(
         [h EXCEPT !.mem = WrByte(WrByte(h.mem, block + OFF_IS_FREE, 0),
                                  block + OFF_PADDING, padding % 256)],
         block)

\* remove_free_block(block), the marking, and the returned pointer.
allocate_take(h, block, padding) ==
  [h |-> allocate_mark(IF h.st = "ok" THEN remove_free_block(h, block) ELSE h,
                       block, padding),
   ret |-> block + HEADER_SIZE + padding,
   block |-> block]

\* The split when the block has room for the request, a header and a
\* minimum block.
allocate_at(h, size, block, padding) ==
  allocate_take(IF ULe(padding + size + HEADER_SIZE + MIN_BLOCK_SIZE, SizeOf(h, block))
                THEN split_block(h, block, size, padding)
                ELSE h,
                block, padding)

allocate_from(h, size, alignment, block) ==
  IF block < 0
  THEN [h |-> [h EXCEPT !.st = SearchStatus(block)], ret |-> NULL, block |-> NULL]
  ELSE IF block = NULL THEN [h |-> h, ret |-> NULL, block |-> NULL]
  ELSE allocate_at(h, size, block, calc_padding(block + HEADER_SIZE, alignment))

\* allocate(size, alignment): the new object state h, the returned pointer
\* ret and the block the pointer was carved from.
allocate(h, size0, alignment) ==
  IF size0 = 0 THEN [h |-> h, ret |-> NULL, block |-> NULL]
  ELSE allocate_from(h, UMax(size0, MIN_BLOCK_SIZE), alignment,
                     find_block(h, UMax(size0, MIN_BLOCK_SIZE), alignment))

\* The header deallocate(ptr) settles on: the first candidate of the backward
\* scan that lies at or after m_memory, reads as not free and whose padding
\* byte equals its distance from ptr; ptr - HEADER_SIZE when there is none.
RECURSIVE scan_header(_, _, _, _)
scan_header(h, data, offset, how) ==
  IF offset > HEADER_SIZE + MAX_ALIGN THEN NULL
  ELSE LET candidate == data - offset
       IN IF candidate >= h.m_memory
             /\ BoolNot(h.mem[candidate + OFF_IS_FREE], how)
             /\ h.mem[candidate + OFF_PADDING] = offset - HEADER_SIZE
          THEN candidate
          ELSE scan_header(h, data, offset + 1, how)

recover_header(h, ptr, how) ==
  LET found == scan_header(h, ptr, HEADER_SIZE, how)
  IN IF found # NULL THEN found ELSE ptr - HEADER_SIZE

\* deallocate(ptr).  m_used is a size_t: the model writes its value modulo
\* 2^64 as the representative of least magnitude, so a subtraction that
\* wraps shows as a negative number.
deallocate(h, ptr, how) ==
  IF ptr = NULL THEN h
  ELSE
  LET block == recover_header(h, ptr, how)
  IN IF SizeOf(h, block) = BigWord THEN [h EXCEPT !.st = "lost"]
     ELSE
     LET h1 == [h EXCEPT !.m_used = h.m_used - (HEADER_SIZE + SizeOf(h, block)),
                         !.mem = WrByte(h.mem, block + OFF_IS_FREE, 1)]
         h2 == insert_free_block(h1, block)
     IN IF h2.st = "ok" THEN coalesce(h2) ELSE h2

reset(h) == IF h.m_size > HEADER_SIZE THEN init(h) ELSE h

owns(h, ptr) == ptr >= h.m_memory /\ ptr < h.m_memory + h.m_size
total_size(h) == h.m_size
used_size(h) == h.m_used

RECURSIVE free_block_count_from(_, _, _)
free_block_count_from(h, current, seen) ==
  IF current = NULL THEN 0
  ELSE IF ~HdrIn(h, current) THEN WILD
  ELSE IF current \in seen THEN HANG
  ELSE LET rest == free_block_count_from(h, NextOf(h, current), seen \cup {current})
       IN IF rest < 0 THEN rest ELSE 1 + rest

free_block_count(h) == free_block_count_from(h, h.m_free_list, {})

RECURSIVE largest_free_block_from(_, _, _, _)
largest_free_block_from(h, current, largest, seen) ==
  IF current = NULL THEN largest
  ELSE IF ~HdrIn(h, current) THEN WILD
  ELSE IF current \in seen THEN HANG
  ELSE largest_free_block_from(h, NextOf(h, current),
                               Max(largest, SizeOf(h, current)), seen \cup {current})

largest_free_block(h) == largest_free_block_from(h, h.m_free_list, 0, {})

\* The nodes of the freelist in list order, as far as the walk can be followed
\* (it stops at a node outside the region or at the first node met twice).
RECURSIVE FreeListFrom(_, _, _)
FreeListFrom(h, current, seen) ==
  IF current = NULL \/ ~HdrIn(h, current) \/ current \in seen THEN <<>>
  ELSE <<current>> \o FreeListFrom(h, NextOf(h, current), seen \cup {current})

FreeList(h) == FreeListFrom(h, h.m_free_list, {})

\* The blocks met by walking the region in address order from m_memory,
\* each header giving the start of the next one, up to the end of the region.
RECURSIVE BlocksFrom(_, _)
BlocksFrom(h, b) ==
  IF b >= h.m_memory + h.m_size \/ ~HdrIn(h, b) THEN <<>>
  ELSE IF SizeOf(h, b) = BigWord THEN <<b>>
  ELSE <<b>> \o BlocksFrom(h, b + HEADER_SIZE + SizeOf(h, b))

Blocks(h) == BlocksFrom(h, h.m_memory)

-----------------------------------------------------------------------------
\* PoolAllocator.  A chunk is at least a pointer wide and chunks do not
\* overlap, so the only bytes the code reads or writes are the first word of
\* each chunk: mem maps a chunk's address to the pointer stored there.

ChunkAddrs(pl) == {pl.m_memory + i * pl.m_chunk_size : i \in 0 .. (pl.m_chunk_count - 1)}

\* A list that leaves the last chunk out.
init_free_list_short(pl) ==
  LET last == pl.m_memory + (pl.m_chunk_count - 1) * pl.m_chunk_size
  IN [pl EXCEPT !.mem = [a \in ChunkAddrs(pl) |->
                           IF a + pl.m_chunk_size >= last THEN NULL
                           ELSE a + pl.m_chunk_size],
                !.m_free_list = pl.m_memory,
                !.m_free_count = pl.m_chunk_count]

\* init_free_list(): every chunk points to the next one, the last to nullptr.
init_free_list(pl) ==
  LET last == pl.m_memory + (pl.m_chunk_count - 1) * pl.m_chunk_size
  IN [pl EXCEPT !.mem = [a \in ChunkAddrs(pl) |->
                           IF a = last THEN NULL ELSE a + pl.m_chunk_size],
                !.m_free_list = pl.m_memory,
                !.m_free_count = pl.m_chunk_count]

\* An owned pool that uses the storage from where operator new put it.
PoolConstructUnaligned(raw, chunk_size, chunk_count, alignment) ==
  LET csize == align_up(Max(chunk_size, PTR_SIZE), alignment)
      pl0 == [mem |-> <<>>, m_memory |-> NULL, m_memory_size |-> csize * chunk_count,
              m_chunk_size |-> csize, m_chunk_count |-> chunk_count,
              m_free_count |-> chunk_count, m_alignment |-> alignment,
              m_free_list |-> NULL, m_owns_memory |-> TRUE, st |-> "ok"]
  IN IF pl0.m_memory_size > 0
     THEN init_free_list([pl0 EXCEPT !.m_memory = raw])
     ELSE pl0

\* PoolAllocator(chunk_size, chunk_count, alignment); raw is the address
\* operator new returns for the m_memory_size + alignment bytes.
PoolConstruct(raw, chunk_size, chunk_count, alignment) ==
  LET csize == align_up(Max(chunk_size, PTR_SIZE), alignment)
      pl0 == [mem |-> <<>>, m_memory |-> NULL, m_memory_size |-> csize * chunk_count,
              m_chunk_size |-> csize, m_chunk_count |-> chunk_count,
              m_free_count |-> chunk_count, m_alignment |-> alignment,
              m_free_list |-> NULL, m_owns_memory |-> TRUE, st |-> "ok"]
  IN IF pl0.m_memory_size > 0
     THEN init_free_list([pl0 EXCEPT !.m_memory = align_pointer(raw, alignment)])
     ELSE pl0

\* The body of the borrowed constructor once the sizes are known.  A
\* buffer_size below the bytes skipped to align the buffer leaves
\* m_memory_size just under 2^64 and the quotient beyond what the model
\* follows; init_free_list() then writes its links past the buffer.
pool_borrow(m_memory, m_memory_size, csize, alignment) ==
  LET pl0 == [mem |-> <<>>, m_memory |-> m_memory, m_memory_size |-> m_memory_size,
              m_chunk_size |-> csize, m_chunk_count |-> 0, m_free_count |-> 0,
              m_alignment |-> alignment, m_free_list |-> NULL,
              m_owns_memory |-> FALSE, st |-> "ok"]
  IN IF m_memory_size < 0
     THEN [pl0 EXCEPT !.m_chunk_count = BigWord, !.m_free_count = BigWord,
                      !.m_free_list = m_memory, !.st = "wild"]
     ELSE IF m_memory_size \div csize > 0
     THEN init_free_list([pl0 EXCEPT !.m_chunk_count = m_memory_size \div csize,
                                     !.m_free_count = m_memory_size \div csize])
     ELSE pl0

\* PoolAllocator(buffer, buffer_size, chunk_size, alignment).
PoolConstructBorrowed(buffer, buffer_size, chunk_size, alignment) ==
  pool_borrow(align_pointer(buffer, alignment),
              buffer_size - (align_pointer(buffer, alignment) - buffer),
              align_up(Max(chunk_size, PTR_SIZE), alignment),
              alignment)

\* An allocate that refuses a size no chunk can hold.
pool_allocate_sized(pl, size, alignment) ==
  IF pl.m_free_list = NULL \/ size > pl.m_chunk_size THEN [pl |-> pl, ret |-> NULL]
  ELSE IF pl.m_free_list \notin DOMAIN pl.mem
  THEN [pl |-> [pl EXCEPT !.st = "wild"], ret |-> pl.m_free_list]
  ELSE [pl |-> [pl EXCEPT !.m_free_list = pl.mem[pl.m_free_list],
                          !.m_free_count = pl.m_free_count - 1],
        ret |-> pl.m_free_list]

\* allocate(size, alignment): both arguments are ignored.
pool_allocate(pl, size, alignment) ==
  IF pl.m_free_list = NULL THEN [pl |-> pl, ret |-> NULL]
  ELSE IF pl.m_free_list \notin DOMAIN pl.mem
  THEN [pl |-> [pl EXCEPT !.st = "wild"], ret |-> pl.m_free_list]
  ELSE [pl |-> [pl EXCEPT !.m_free_list = pl.mem[pl.m_free_list],
                          !.m_free_count = pl.m_free_count - 1],
        ret |-> pl.m_free_list]

\* A deallocate that appends the chunk to the end of the list.
RECURSIVE pool_append(_, _, _)
pool_append(pl, at, ptr) ==
  IF pl.mem[at] = NULL
  THEN [pl EXCEPT !.mem = [pl.mem EXCEPT ![at] = ptr, ![ptr] = NULL],
                  !.m_free_count = pl.m_free_count + 1]
  ELSE pool_append(pl, pl.mem[at], ptr)

pool_deallocate_queued(pl, ptr) ==
  IF ptr = NULL THEN pl
  ELSE IF ptr \notin DOMAIN pl.mem THEN [pl EXCEPT !.st = "wild"]
  ELSE IF pl.m_free_list = NULL
  THEN [pl EXCEPT !.mem = [pl.mem EXCEPT ![ptr] = NULL],
                  !.m_free_list = ptr,
                  !.m_free_count = pl.m_free_count + 1]
  ELSE pool_append(pl, pl.m_free_list, ptr)

\* A deallocate that pushes the chunk and leaves the count alone.
pool_deallocate_uncounted(pl, ptr) ==
  IF ptr = NULL THEN pl
  ELSE IF ptr \notin DOMAIN pl.mem THEN [pl EXCEPT !.st = "wild"]
  ELSE [pl EXCEPT !.mem = [pl.mem EXCEPT ![ptr] = pl.m_free_list],
                  !.m_free_list = ptr]

pool_deallocate(pl, ptr) ==
  IF ptr = NULL THEN pl
  ELSE IF ptr \notin DOMAIN pl.mem THEN [pl EXCEPT !.st = "wild"]
  ELSE [pl EXCEPT !.mem = [pl.mem EXCEPT ![ptr] = pl.m_free_list],
                  !.m_free_list = ptr,
                  !.m_free_count = pl.m_free_count + 1]

\* A reset that leaves the list as it is.
pool_reset_kept(pl) == pl

pool_reset(pl) == IF pl.m_chunk_count > 0 THEN init_free_list(pl) ELSE pl

pool_owns(pl, ptr) ==
  IF ptr < pl.m_memory \/ ptr >= pl.m_memory + pl.m_memory_size THEN FALSE
  ELSE (ptr - pl.m_memory) % pl.m_chunk_size = 0

pool_total_size(pl) == pl.m_memory_size
pool_used_size(pl) == (pl.m_chunk_count - pl.m_free_count) * pl.m_chunk_size
chunk_size(pl) == pl.m_chunk_size
chunk_count(pl) == pl.m_chunk_count
free_count(pl) == pl.m_free_count

\* The chunks met by following the links from m_free_list, up to the first
\* address met twice or lying outside the chunks.
RECURSIVE PoolListFrom(_, _, _)
PoolListFrom(pl, current, seen) ==
  IF current = NULL \/ current \in seen \/ current \notin DOMAIN pl.mem THEN <<>>
  ELSE <<current>> \o PoolListFrom(pl, pl.mem[current], seen \cup {current})

PoolList(pl) == PoolListFrom(pl, pl.m_free_list, {})

\* The address at which the walk of the freelist stops: nullptr when the
\* list is well formed.
PoolListEnd(pl) ==
  LET fl == PoolList(pl)
  IN IF Len(fl) = 0 THEN pl.m_free_list ELSE pl.mem[fl[Len(fl)]]

-----------------------------------------------------------------------------
\* StackAllocator.  The object touches no byte of its region, so the state
\* is its four members; asserts records whether the build keeps assert()
\* (no NDEBUG) and st whether an assertion has stopped the program.

StackConstruct(base, size, owned, asserts) ==
  [m_memory |-> IF owned /\ size = 0 THEN NULL ELSE base, m_size |-> size,
   m_offset |-> 0, m_owns_memory |-> owned, asserts |-> asserts, st |-> "ok"]

\* An allocate that skips the space check.
stack_place_unchecked(sa, size, padding) ==
  [s |-> [sa EXCEPT !.m_offset = sa.m_offset + padding + size],
   ret |-> sa.m_memory + sa.m_offset + padding]

\* allocate() from the space check on: padding is already computed.
stack_place(sa, size, padding) ==
  IF UGt(sa.m_offset + padding + size, sa.m_size)
  THEN [s |-> sa, ret |-> NULL]
  ELSE [s |-> [sa EXCEPT !.m_offset = sa.m_offset + padding + size],
        ret |-> sa.m_memory + sa.m_offset + padding]

\* An allocate that serves size 0 with one byte at the cursor.
stack_allocate_one(sa, size, alignment) ==
  IF size = 0 THEN stack_place(sa, 1, 0)
  ELSE stack_place(sa, size, calc_padding(sa.m_memory + sa.m_offset, alignment))

stack_allocate(sa, size, alignment) ==
  IF size = 0 THEN [s |-> sa, ret |-> NULL]
  ELSE stack_place(sa, size, calc_padding(sa.m_memory + sa.m_offset, alignment))

stack_deallocate(sa, ptr) == sa

\* A reset that leaves the cursor where it is.
stack_reset_kept(sa) == sa

stack_reset(sa) == [sa EXCEPT !.m_offset = 0]

get_marker(sa) == sa.m_offset

rollback(sa, marker) ==
  IF sa.asserts /\ UGt(marker, sa.m_offset) THEN [sa EXCEPT !.st = "abort"]
  ELSE [sa EXCEPT !.m_offset = marker]

stack_owns(sa, ptr) == ptr >= sa.m_memory /\ ptr < sa.m_memory + sa.m_size
stack_total_size(sa) == sa.m_size
stack_used_size(sa) == sa.m_offset
free_size(sa) == sa.m_size - sa.m_offset

-----------------------------------------------------------------------------
\* Call histories before the first call, and the engines a specification
\* does not exercise: they stay as they are here.

HeapIdle == Construct(4096, 0, "FirstFit", 0)
PoolIdle == PoolConstruct(4096, 0, 0, 1)
NoPoolCall == [op |-> "construct", size |-> 0, alignment |-> 0, ptr |-> NULL,
               was_live |-> FALSE, head_before |-> NULL, chunk |-> 0]

NoCall == [op |-> "construct", size |-> 0, alignment |-> 0, ptr |-> NULL,
           block |-> NULL, hdr |-> NULL, used_before |-> 0, id |-> 0]

NoStackCall == [op |-> "construct", size |-> 0, alignment |-> 0, ptr |-> NULL,
                offset_before |-> 0]
\* What has happened since the last savepoint: whether one is held, its
\* value, free() when it was taken, the allocate calls made after it; and
\* ptrs, the allocations that no rewind or reset has gone below.
NoTrail == [held |-> FALSE, mark |-> 0, free |-> 0, calls |-> <<>>, ptrs |-> {}]

NoMove == [op |-> "construct", dst |-> 0, src |-> 0, ret |-> NULL]

StackIdle == StackConstruct(NULL, 0, TRUE, FALSE)
NoObjs == <<>>

HeapAtRest == heap = HeapIdle /\ hlive = {} /\ hlast = NoCall /\ hops = 0
PoolAtRest ==
  pool = PoolIdle /\ plive = {} /\ plast = NoPoolCall /\ pfreed = <<>> /\ pops = 0
StackAtRest == stack = StackIdle /\ slast = NoStackCall /\ strail = NoTrail /\ sops = 0
MoveAtRest == objs = NoObjs /\ mlast = NoMove /\ mops = 0 /\ news = {} /\ dels = <<>>

NoThreads == <<>>
\* kind and elem say which engine class the adapter wraps and sizeof(T),
\* alignof(T); engine_calls counts the engine calls the last call made, and
\* made the calls made through the adapter so far.
NoAdapterCall == [op |-> "construct", kind |-> "none", elem |-> <<1, 1>>, n |-> 0,
                  ptr |-> NULL, thrown |-> FALSE, engine_calls |-> 0,
                  unchanged |-> TRUE, made |-> 0]

ThreadsAtRest == thr = NoThreads /\ mutex = 0
AdapterAtRest == alast = NoAdapterCall /\ alive = {}
TwinAtRest == twin = HeapIdle /\ tlive = {} /\ tlast = NoCall

-----------------------------------------------------------------------------
\* The heap as a state machine: a single owner calls the public operations
\* and writes into the payloads it holds.

HeapInit ==
  /\ \E base \in BaseAddrs, strategy \in Strategies, fill \in InitBytes :
       heap = Construct(base, HeapCap, strategy, fill)
  /\ hlive = {}
  /\ hlast = NoCall
  /\ hops = 0
  /\ PoolAtRest /\ StackAtRest /\ MoveAtRest
  /\ ThreadsAtRest /\ AdapterAtRest /\ TwinAtRest

AllocateWithin(limit, size, alignment) ==
  /\ heap.st = "ok"
  /\ hops < limit
  /\ LET r == allocate(heap, size, alignment)
     IN /\ heap' = r.h
        /\ hlive' = IF r.ret # NULL /\ r.h.st = "ok"
                    THEN hlive \cup {[ptr |-> r.ret, size |-> size,
                                      alignment |-> alignment, hdr |-> r.block,
                                      used_before |-> heap.m_used, id |-> hops]}
                    ELSE hlive
        /\ hlast' = [op |-> "allocate", size |-> size, alignment |-> alignment,
                     ptr |-> r.ret, block |-> r.block, hdr |-> r.block,
                     used_before |-> heap.m_used, id |-> hops]
  /\ hops' = hops + 1
  /\ UNCHANGED <<pvars, svars, mvars, tvars, avars, wvars>>

Allocate(size, alignment) == AllocateWithin(MaxOps, size, alignment)

DeallocateWithin(limit, a, how) ==
  /\ heap.st = "ok"
  /\ hops < limit
  /\ heap' = deallocate(heap, a.ptr, how)
  /\ hlive' = hlive \ {a}
  /\ hlast' = [op |-> "deallocate", size |-> a.size, alignment |-> a.alignment,
               ptr |-> a.ptr, block |-> recover_header(heap, a.ptr, how),
               hdr |-> a.hdr, used_before |-> a.used_before, id |-> a.id]
  /\ hops' = hops + 1
  /\ UNCHANGED <<pvars, svars, mvars, tvars, avars, wvars>>

Deallocate(a, how) == DeallocateWithin(MaxOps, a, how)

Reset ==
  /\ heap.st = "ok"
  /\ hops < MaxOps
  /\ heap' = reset(heap)
  /\ hlive' = {}
  /\ hlast' = [NoCall EXCEPT !.op = "reset", !.used_before = heap.m_used]
  /\ hops' = hops + 1
  /\ UNCHANGED <<pvars, svars, mvars, tvars, avars, wvars>>

\* std::memset(ptr, v, size) by the caller.  A size of 2^63 or more (written
\* negative) runs from ptr past every byte the process has mapped: the
\* bytes from ptr on are written and the process dies.
memset(h, ptr, v, size) ==
  IF size < 0
  THEN [h EXCEPT !.mem = [x \in DOMAIN h.mem |-> IF x >= ptr THEN v ELSE h.mem[x]],
                 !.st = "wild"]
  ELSE [h EXCEPT !.mem = [x \in DOMAIN h.mem |->
                    IF x >= ptr /\ x < ptr + size THEN v ELSE h.mem[x]]]

\* The caller memsets the size bytes it asked for.
Fill(a, v) ==
  /\ heap.st = "ok"
  /\ hops < MaxOps
  /\ heap' = memset(heap, a.ptr, v, a.size)
  /\ hlast' = [NoCall EXCEPT !.op = "fill", !.ptr = a.ptr, !.size = a.size,
                             !.used_before = heap.m_used]
  /\ hops' = hops + 1
  /\ UNCHANGED <<hlive, pvars, svars, mvars, tvars, avars, wvars>>

HeapNext ==
  \/ \E rq \in Requests : Allocate(rq[1], rq[2])
  \/ \E a \in hlive, how \in BoolReads : Deallocate(a, how)
  \/ Reset
  \/ \E a \in hlive, v \in FillBytes : Fill(a, v)

SpecHeap == HeapInit /\ [][HeapNext]_vars

-----------------------------------------------------------------------------
\* The pool as a state machine.

\* PoolAllocator(chunk_size, chunk_count, alignment) calls: the test's pool,
\* a chunk size below the alignment, one below the pointer size, a pool of
\* one chunk.
PoolConfigs == {<<64, 3, 16>>, <<10, 4, 64>>, <<4, 3, 8>>, <<8, 1, 8>>}
\* Addresses operator new returns: 16-aligned, a multiple of 64 or not.
PoolRawAddrs == {4096, 4112}
\* allocate(size, alignment) arguments: the defaults, and a size above any chunk.
PoolRequests == {<<0, 0>>, <<1000, 16>>}
\* What a caller stores in the first word of a chunk it holds.
PoolWords == {0, 4096}

\* PoolAllocator(buffer, buffer_size, chunk_size, alignment) calls: an aligned
\* buffer, misaligned ones whose size is above, equal to and below the bytes
\* skipped to align them, a buffer too small for one chunk, no buffer, and a
\* buffer with bytes left over after its last chunk.
PoolBuffers == {<<4096, 192, 64, 16>>, <<4104, 200, 24, 16>>, <<4104, 8, 8, 16>>,
                <<4104, 4, 8, 16>>, <<4100, 7, 8, 8>>, <<0, 0, 8, 16>>,
                <<4096, 200, 64, 64>>}

PoolInit ==
  /\ \/ \E cfg \in PoolConfigs, raw \in PoolRawAddrs :
          /\ pool = PoolConstruct(raw, cfg[1], cfg[2], cfg[3])
          /\ plast = [NoPoolCall EXCEPT !.chunk = cfg[1], !.alignment = cfg[3]]
     \/ \E b \in PoolBuffers :
          /\ pool = PoolConstructBorrowed(b[1], b[2], b[3], b[4])
          /\ plast = [NoPoolCall EXCEPT !.op = "borrow", !.ptr = b[1],
                                        !.size = b[2], !.chunk = b[3],
                                        !.alignment = b[4]]
  /\ plive = {}
  /\ pfreed = <<>>
  /\ pops = 0
  /\ HeapAtRest /\ StackAtRest /\ MoveAtRest
  /\ ThreadsAtRest /\ AdapterAtRest /\ TwinAtRest

PoolAllocate(size, alignment) ==
  /\ pool.st = "ok"
  /\ pops < PoolMaxOps
  /\ LET r == pool_allocate(pool, size, alignment)
     IN /\ pool' = r.pl
        /\ plive' = IF r.ret # NULL THEN plive \cup {r.ret} ELSE plive
        /\ plast' = [op |-> "allocate", size |-> size, alignment |-> alignment,
                     ptr |-> r.ret, was_live |-> r.ret \in plive,
                     head_before |-> pool.m_free_list, chunk |-> 0]
        /\ pfreed' = IF Len(pfreed) > 0 /\ pfreed[Len(pfreed)] = r.ret
                     THEN SubSeq(pfreed, 1, Len(pfreed) - 1)
                     ELSE pfreed
  /\ pops' = pops + 1
  /\ UNCHANGED <<hvars, svars, mvars, tvars, avars, wvars>>

PoolDeallocate(p) ==
  /\ pool.st = "ok"
  /\ pops < PoolMaxOps
  /\ pool' = pool_deallocate(pool, p)
  /\ plive' = plive \ {p}
  /\ plast' = [NoPoolCall EXCEPT !.op = "deallocate", !.ptr = p,
                                 !.head_before = pool.m_free_list]
  /\ pfreed' = Append(pfreed, p)
  /\ pops' = pops + 1
  /\ UNCHANGED <<hvars, svars, mvars, tvars, avars, wvars>>

PoolReset ==
  /\ pool.st = "ok"
  /\ pops < PoolMaxOps
  /\ pool' = pool_reset(pool)
  /\ plive' = {}
  /\ plast' = [NoPoolCall EXCEPT !.op = "reset", !.head_before = pool.m_free_list]
  /\ pfreed' = <<>>
  /\ pops' = pops + 1
  /\ UNCHANGED <<hvars, svars, mvars, tvars, avars, wvars>>

\* The caller writes into the first word of a chunk it holds.
PoolWrite(p, w) ==
  /\ pool.st = "ok"
  /\ pops < PoolMaxOps
  /\ pool.mem[p] # w
  /\ pool' = [pool EXCEPT !.mem = [pool.mem EXCEPT ![p] = w]]
  /\ plast' = [NoPoolCall EXCEPT !.op = "write", !.ptr = p,
                                 !.head_before = pool.m_free_list]
  /\ pops' = pops + 1
  /\ UNCHANGED <<plive, pfreed, hvars, svars, mvars, tvars, avars, wvars>>

PoolNext ==
  \/ \E rq \in PoolRequests : PoolAllocate(rq[1], rq[2])
  \/ \E p \in plive : PoolDeallocate(p)
  \/ PoolReset
  \/ \E p \in plive, w \in PoolWords : PoolWrite(p, w)

SpecPool == PoolInit /\ [][PoolNext]_vars

-----------------------------------------------------------------------------
\* The bump engine as a state machine.

StackMaxOps == 4       \* bump calls per run
StackCap == 128        \* bytes of the bump region

\* Region addresses: operator new results and a caller's odd buffer.
StackBases == {4096, 4112, 4100}
\* allocate(size, alignment) calls: the degenerate size, sizes that fill the
\* region in one or several calls, alignments up to 64, and a size of
\* 2^64 - 8.
StackRequests == {<<0, 16>>, <<16, 1>>, <<100, 1>>, <<29, 8>>, <<40, 16>>,
                  <<24, 64>>, <<-8, 1>>}

StackInit ==
  /\ \E base \in StackBases, cap \in {0, StackCap}, owned \in BOOLEAN,
        asserts \in BOOLEAN :
       /\ owned => base % MAX_ALIGN = 0
       /\ stack = StackConstruct(base, cap, owned, asserts)
  /\ slast = NoStackCall
  /\ strail = NoTrail
  /\ sops = 0
  /\ HeapAtRest /\ PoolAtRest /\ MoveAtRest
  /\ ThreadsAtRest /\ AdapterAtRest /\ TwinAtRest

StackAllocate(size, alignment) ==
  /\ stack.st = "ok"
  /\ sops < StackMaxOps
  /\ LET r == stack_allocate(stack, size, alignment)
     IN /\ stack' = r.s
        /\ slast' = [op |-> "allocate", size |-> size, alignment |-> alignment,
                     ptr |-> r.ret, offset_before |-> stack.m_offset]
        /\ strail' = [strail EXCEPT
             !.calls = IF strail.held
                       THEN Append(IF slast.op = "rollback" THEN <<>> ELSE @,
                                   [size |-> size, alignment |-> alignment,
                                    ptr |-> r.ret])
                       ELSE @,
             !.ptrs = IF r.ret # NULL
                      THEN @ \cup {[ptr |-> r.ret, size |-> size]} ELSE @]
  /\ sops' = sops + 1
  /\ UNCHANGED <<hvars, pvars, mvars, tvars, avars, wvars>>

StackDeallocate(a) ==
  /\ stack.st = "ok"
  /\ sops < StackMaxOps
  /\ stack' = stack_deallocate(stack, a.ptr)
  /\ slast' = [NoStackCall EXCEPT !.op = "deallocate", !.ptr = a.ptr,
                                  !.offset_before = stack.m_offset]
  /\ sops' = sops + 1
  /\ UNCHANGED <<strail, hvars, pvars, mvars, tvars, avars, wvars>>

StackReset ==
  /\ stack.st = "ok"
  /\ sops < StackMaxOps
  /\ stack' = stack_reset(stack)
  /\ slast' = [NoStackCall EXCEPT !.op = "reset", !.offset_before = stack.m_offset]
  /\ strail' = NoTrail
  /\ sops' = sops + 1
  /\ UNCHANGED <<hvars, pvars, mvars, tvars, avars, wvars>>

StackMark ==
  /\ stack.st = "ok"
  /\ sops < StackMaxOps
  /\ strail' = [strail EXCEPT !.held = TRUE, !.mark = get_marker(stack),
                              !.free = free_size(stack), !.calls = <<>>]
  /\ slast' = [NoStackCall EXCEPT !.op = "get_marker",
                                  !.offset_before = stack.m_offset]
  /\ sops' = sops + 1
  /\ UNCHANGED <<stack, hvars, pvars, mvars, tvars, avars, wvars>>

\* rollback to the savepoint held; the allocations above it are gone.
StackRollback ==
  /\ stack.st = "ok"
  /\ sops < StackMaxOps
  /\ strail.held
  /\ stack' = rollback(stack, strail.mark)
  /\ slast' = [NoStackCall EXCEPT !.op = "rollback",
                                  !.offset_before = stack.m_offset]
  /\ strail' = [strail EXCEPT
       !.ptrs = {a \in @ : a.size >= 0
                           /\ a.ptr + a.size <= stack.m_memory + strail.mark}]
  /\ sops' = sops + 1
  /\ UNCHANGED <<hvars, pvars, mvars, tvars, avars, wvars>>

StackNext ==
  \/ \E rq \in StackRequests : StackAllocate(rq[1], rq[2])
  \/ \E a \in strail.ptrs : StackDeallocate(a)
  \/ StackReset
  \/ StackMark
  \/ StackRollback

SpecStack == StackInit /\ [][StackNext]_vars

-----------------------------------------------------------------------------
\* Construction, moves and destruction.  A program holds up to three objects
\* of one engine class; kind names the class.

\* The members a move leaves in its source.
stack_moved_from(other) ==
  [other EXCEPT !.m_memory = NULL, !.m_size = 0, !.m_offset = 0,
                !.m_owns_memory = FALSE]

pool_moved_from(other) ==
  [other EXCEPT !.m_memory = NULL, !.m_memory_size = 0, !.m_chunk_count = 0,
                !.m_free_count = 0, !.m_free_list = NULL, !.m_owns_memory = FALSE]

heap_moved_from(other) ==
  [other EXCEPT !.m_memory = NULL, !.m_size = 0, !.m_used = 0,
                !.m_free_list = NULL, !.m_owns_memory = FALSE]

moved_from(kind, other) ==
  CASE kind = "stack" -> stack_moved_from(other)
    [] kind = "pool"  -> pool_moved_from(other)
    [] kind = "heap"  -> heap_moved_from(other)

\* What a destructor, or a move assignment over this object, passes to
\* operator delete: m_memory when m_owns_memory && m_memory.
releases(e) ==
  IF e.m_owns_memory /\ e.m_memory # NULL THEN <<e.m_memory>> ELSE <<>>

\* One allocate call on an engine of the class: the object and the pointer.
obj_allocate(kind, e) ==
  CASE kind = "stack" -> [e |-> stack_allocate(e, 16, 1).s,
                          ret |-> stack_allocate(e, 16, 1).ret]
    [] kind = "pool"  -> [e |-> pool_allocate(e, 0, 0).pl,
                          ret |-> pool_allocate(e, 0, 0).ret]
    [] kind = "heap"  -> [e |-> allocate(e, 8, 1).h, ret |-> allocate(e, 8, 1).ret]

capacity(kind, e) ==
  CASE kind = "stack" -> stack_total_size(e)
    [] kind = "pool"  -> pool_total_size(e)
    [] kind = "heap"  -> total_size(e)

MoveMaxOps == 4        \* moves, allocations and destructions per run
MoveCap == 64          \* bytes of the first heap or bump region

Slots == {1, 2, 3}
\* Addresses operator new returns for the first object: a multiple of 64 and
\* one that is only 16-aligned.
MoveRawAddrs == {4096, 4112}
\* The two objects a run starts with, per class, each with the addresses it
\* acquired: the first owns its region, the second owns one, borrows one or
\* has none.
acquired(b) == IF b.m_owns_memory /\ b.m_memory # NULL THEN {8192} ELSE {}

MoveSetupsAt(raw) ==
  { [kind |-> "stack", a |-> StackConstruct(raw, MoveCap, TRUE, TRUE), b |-> b,
     news |-> {raw} \cup acquired(b)] :
      b \in {StackConstruct(8192, 32, TRUE, TRUE), StackConstruct(8192, 32, FALSE, TRUE),
             StackConstruct(8192, 0, TRUE, TRUE)} }
  \cup
  { [kind |-> "heap", a |-> Construct(raw, MoveCap, "FirstFit", 170), b |-> b,
     news |-> {raw} \cup acquired(b)] :
      b \in {Construct(8192, 48, "BestFit", 170),
             ConstructBorrowed(8192, 48, "WorstFit", 170),
             Construct(8192, 16, "FirstFit", 170)} }
  \cup
  { [kind |-> "pool", a |-> PoolConstruct(raw, cfg[1], cfg[2], cfg[3]), b |-> b,
     news |-> {raw} \cup acquired(b)] :
      cfg \in {<<64, 2, 16>>, <<10, 2, 64>>},
      b \in {PoolConstruct(8192, 8, 2, 8), PoolConstructBorrowed(8192, 64, 16, 16),
             PoolConstruct(8192, 8, 0, 8)} }

MoveSetups == UNION {MoveSetupsAt(raw) : raw \in MoveRawAddrs}

MoveInit ==
  /\ \E su \in MoveSetups :
       /\ objs = [i \in Slots |->
                    [kind |-> su.kind,
                     life |-> IF i = 3 THEN "unborn" ELSE "alive",
                     e |-> IF i = 1 THEN su.a ELSE su.b,
                     was |-> IF i = 1 THEN su.a ELSE su.b]]
       /\ news = su.news
  /\ dels = <<>>
  /\ mlast = NoMove
  /\ mops = 0
  /\ HeapAtRest /\ PoolAtRest /\ StackAtRest
  /\ ThreadsAtRest /\ AdapterAtRest /\ TwinAtRest

\* T dst(std::move(src)): was keeps, for every object, the members it had
\* before the call.
MoveConstruct(dst, src) ==
  /\ mops < MoveMaxOps
  /\ objs[dst].life = "unborn" /\ objs[src].life = "alive"
  /\ objs' = [i \in Slots |->
                IF i = dst THEN [objs[i] EXCEPT !.life = "alive", !.e = objs[src].e,
                                                !.was = objs[i].e]
                ELSE IF i = src
                THEN [objs[i] EXCEPT !.e = moved_from(objs[i].kind, objs[i].e),
                                     !.was = objs[i].e]
                ELSE [objs[i] EXCEPT !.was = objs[i].e]]
  /\ mlast' = [NoMove EXCEPT !.op = "move_construct", !.dst = dst, !.src = src]
  /\ mops' = mops + 1
  /\ UNCHANGED <<news, dels, hvars, pvars, svars, tvars, avars, wvars>>

\* dst = std::move(src); dst and src may be the same object.
MoveAssign(dst, src) ==
  /\ mops < MoveMaxOps
  /\ objs[dst].life = "alive" /\ objs[src].life = "alive"
  /\ objs' = [i \in Slots |->
                IF dst = src THEN [objs[i] EXCEPT !.was = objs[i].e]
                ELSE IF i = dst THEN [objs[i] EXCEPT !.e = objs[src].e, !.was = objs[i].e]
                ELSE IF i = src
                THEN [objs[i] EXCEPT !.e = moved_from(objs[i].kind, objs[i].e),
                                     !.was = objs[i].e]
                ELSE [objs[i] EXCEPT !.was = objs[i].e]]
  /\ dels' = IF dst = src THEN dels ELSE dels \o releases(objs[dst].e)
  /\ mlast' = [NoMove EXCEPT !.op = "move_assign", !.dst = dst, !.src = src]
  /\ mops' = mops + 1
  /\ UNCHANGED <<news, hvars, pvars, svars, tvars, avars, wvars>>

Destroy(x) ==
  /\ mops < MoveMaxOps
  /\ objs[x].life = "alive"
  /\ objs' = [i \in Slots |->
                IF i = x THEN [objs[i] EXCEPT !.life = "destroyed", !.was = objs[i].e]
                ELSE [objs[i] EXCEPT !.was = objs[i].e]]
  /\ dels' = dels \o releases(objs[x].e)
  /\ mlast' = [NoMove EXCEPT !.op = "destroy", !.dst = x]
  /\ mops' = mops + 1
  /\ UNCHANGED <<news, hvars, pvars, svars, tvars, avars, wvars>>

ObjAllocate(x) ==
  /\ mops < MoveMaxOps
  /\ objs[x].life = "alive"
  /\ objs' = [i \in Slots |->
                IF i = x THEN [objs[i] EXCEPT !.e = obj_allocate(objs[i].kind, objs[i].e).e,
                                              !.was = objs[i].e]
                ELSE [objs[i] EXCEPT !.was = objs[i].e]]
  /\ mlast' = [NoMove EXCEPT !.op = "allocate", !.dst = x,
                             !.ret = obj_allocate(objs[x].kind, objs[x].e).ret]
  /\ mops' = mops + 1
  /\ UNCHANGED <<news, dels, hvars, pvars, svars, tvars, avars, wvars>>

MoveNext ==
  \/ \E dst, src \in Slots : MoveConstruct(dst, src)
  \/ \E dst, src \in Slots : MoveAssign(dst, src)
  \/ \E x \in Slots : Destroy(x)
  \/ \E x \in Slots : ObjAllocate(x)

SpecMove == MoveInit /\ [][MoveNext]_vars

-----------------------------------------------------------------------------
\* Views of the heap that the properties below are stated over.

\* The walk of the region in address order ends exactly at its end.
RECURSIVE TilesFrom(_, _)
TilesFrom(h, b) ==
  IF b = h.m_memory + h.m_size THEN TRUE
  ELSE IF ~InRegion(h, b, HEADER_SIZE) \/ SizeOf(h, b) = BigWord THEN FALSE
  ELSE TilesFrom(h, b + HEADER_SIZE + SizeOf(h, b))

Tiles(h) == TilesFrom(h, h.m_memory)

SeqSum(f, s) ==
  LET RECURSIVE Sum(_)
      Sum(i) == IF i = 0 THEN 0 ELSE f[s[i]] + Sum(i - 1)
  IN Sum(Len(s))

SeqSet(s) == {s[i] : i \in 1 .. Len(s)}

IsFreeByte(h, b) == h.mem[b + OFF_IS_FREE]

\* The blocks of the address-order walk that are not free.
UsedBlocks(h) == {b \in SeqSet(Blocks(h)) : IsFreeByte(h, b) = 0}

RECURSIVE SetSum(_, _)
SetSum(h, S) ==
  IF S = {} THEN 0
  ELSE LET b == CHOOSE x \in S : TRUE
       IN HEADER_SIZE + SizeOf(h, b) + SetSum(h, S \ {b})

\* b is followed immediately by n in address order.
Abuts(h, b, n) == SizeOf(h, b) # BigWord /\ b + HEADER_SIZE + SizeOf(h, b) = n

Disjoint(a, b) == a.ptr + a.size <= b.ptr \/ b.ptr + b.size <= a.ptr

-----------------------------------------------------------------------------
\* C1: any two distinct live allocations occupy disjoint byte ranges
\* [p, p + s_p) and [q, q + s_q).
C1_LiveRangesDisjoint ==
  \A a, b \in hlive : a # b => Disjoint(a, b)

\* C2: deallocate(p) right after p = allocate(size, A) brings used_bytes back
\* to the value it had just before that allocate.
C2_UsedRestored ==
  (hlast.op = "deallocate" /\ hlast.id = hops - 2 /\ heap.st = "ok")
    => heap.m_used = hlast.used_before

\* C3: the header deallocate(p) recovers is the header of the block p was
\* allocated from.
C3_HeaderRecovered ==
  hlast.op = "deallocate" => hlast.block = hlast.hdr

\* C4 (H1): the blocks met in address order tile the region exactly.
C4_BlocksTile ==
  heap.st = "ok" => Tiles(heap)

\* C5 (H5): used_bytes is the sum of HSZ + size over the blocks that are not
\* free.
C5_UsedIsSumOfLive ==
  heap.st = "ok" => heap.m_used = SetSum(heap, UsedBlocks(heap))

\* C6 (H4): after a deallocate no two blocks that are neighbours in address
\* order are both free.
C6_NoAdjacentFree ==
  (hlast.op = "deallocate" /\ heap.st = "ok") =>
     \A b, n \in SeqSet(Blocks(heap)) :
        Abuts(heap, b, n) => ~(IsFreeByte(heap, b) # 0 /\ IsFreeByte(heap, n) # 0)

\* C7: when coalesce has returned, no two consecutive freelist nodes are
\* neighbours in address order, in either order.
C7_NoListPairAdjacent ==
  (hlast.op = "deallocate" /\ heap.st = "ok") =>
     LET fl == FreeList(heap)
     IN \A i \in 1 .. (Len(fl) - 1) :
          ~Abuts(heap, fl[i], fl[i + 1]) /\ ~Abuts(heap, fl[i + 1], fl[i])

\* C8: once every pointer obtained from allocate has been deallocated, one
\* free block spans the region.
C8_AllFreedOneBlock ==
  (hlast.op = "deallocate" /\ hlive = {} /\ heap.st = "ok") =>
     /\ largest_free_block(heap) = heap.m_size - HEADER_SIZE
     /\ free_block_count(heap) = 1

\* C9: a pointer returned by allocate is aligned, lies in the region with
\* its size bytes, and sits pad bytes after the header of its block, inside
\* that block.
C9_PointerPlaced ==
  (hlast.op = "allocate" /\ hlast.ptr # NULL /\ heap.st = "ok") =>
     LET p == hlast.ptr
         b == hlast.block
         size == hlast.size
     IN /\ p % hlast.alignment = 0
        /\ heap.m_memory <= p
        /\ p <= heap.m_memory + heap.m_size - size
        /\ p = b + HEADER_SIZE + heap.mem[b + OFF_PADDING]
        /\ p + size <= b + HEADER_SIZE + SizeOf(heap, b)

\* C10 (P4, P5): the pool's freelist ends in nullptr without meeting a chunk
\* twice, has free_count() nodes, each the start of a chunk; a chunk is on it
\* iff it is not live; allocate never hands out a live chunk; and used_size()
\* is (N - free_count()) * S.
C10_PoolFreeList ==
  pool.st = "ok" =>
     LET fl == PoolList(pool)
     IN /\ PoolListEnd(pool) = NULL
        /\ Len(fl) = free_count(pool)
        /\ SeqSet(fl) \subseteq ChunkAddrs(pool)
        /\ SeqSet(fl) = ChunkAddrs(pool) \ plive
        /\ (plast.op = "allocate" => ~plast.was_live)
        /\ pool_used_size(pool) = Cardinality(plive) * chunk_size(pool)
        /\ pool_used_size(pool) = (chunk_count(pool) - free_count(pool)) * chunk_size(pool)

\* C10, the case reached: a chunk went back to the pool while another is
\* still held; it is the new head, links to the old one, and is not the
\* first chunk.
C10_ChunkReturned ==
  /\ plast.op = "deallocate" /\ pool.st = "ok"
  /\ plive # {}
  /\ pool.m_free_list = plast.ptr /\ pool.m_free_list # pool.m_memory
  /\ pool.mem[plast.ptr] = plast.head_before
  /\ free_count(pool) >= 2

\* C11: every address an owned pool passes to operator delete, in its
\* destructor or when a move assignment overwrites it, is an address that
\* operator new returned.
C11_PoolReleasesAcquired ==
  objs[1].kind = "pool" => \A i \in 1 .. Len(dels) : dels[i] \in news

\* C12: a borrowed pool has floor(usable / S) chunks, usable being the bytes
\* of the caller's buffer at or after the aligned base, and every chunk
\* lies inside the buffer.
C12_BorrowedChunksInBuffer ==
  plast.op = "borrow" =>
     LET skipped == align_pointer(plast.ptr, plast.alignment) - plast.ptr
         usable  == IF plast.size >= skipped THEN plast.size - skipped ELSE 0
     IN /\ pool.m_memory = plast.ptr + skipped
        /\ chunk_count(pool) = usable \div chunk_size(pool)
        /\ free_count(pool) = chunk_count(pool)
        /\ chunk_count(pool) > 0 =>
              /\ plast.ptr <= pool.m_memory
              /\ pool.m_memory + chunk_count(pool) * chunk_size(pool)
                   <= plast.ptr + plast.size

\* Two bump allocations do not share a byte.  A size held as a negative
\* number is 2^64 minus its magnitude: the range it starts has no end below
\* any address.
StackDisjoint(a, b) ==
  \/ a.size >= 0 /\ a.ptr + a.size <= b.ptr
  \/ b.size >= 0 /\ b.ptr + b.size <= a.ptr

\* Repeating the recorded allocate calls from state sa returns the recorded
\* pointers.
RECURSIVE ReplaysFrom(_, _, _)
ReplaysFrom(sa, calls, i) ==
  \/ i > Len(calls)
  \/ /\ stack_allocate(sa, calls[i].size, calls[i].alignment).ret = calls[i].ptr
     /\ ReplaysFrom(stack_allocate(sa, calls[i].size, calls[i].alignment).s, calls, i + 1)

\* C13 (I1): 0 <= cursor <= cap, used() = cursor, free() = cap - cursor and
\* used() + free() = capacity().
C13_CursorInBounds ==
  /\ stack.m_offset >= 0
  /\ ULe(stack.m_offset, stack.m_size)
  /\ stack_used_size(stack) = stack.m_offset
  /\ free_size(stack) = stack.m_size - stack.m_offset
  /\ free_size(stack) >= 0
  /\ stack_used_size(stack) + free_size(stack) = stack_total_size(stack)

\* C13, the case reached: allocations filled part of the region and a rewind
\* to a savepoint below the cursor has taken some of them back.
C13_RewoundBelowCursor ==
  /\ slast.op = "rollback" /\ stack.st = "ok"
  /\ stack.m_offset > 0 /\ stack.m_offset < slast.offset_before

\* C14: a successful allocate returns p with p mod align = 0, base + old
\* cursor <= p, p + size = base + new cursor <= base + cap; and the
\* allocations that no rewind or reset has gone below are pairwise disjoint.
C14_BumpPointerPlaced ==
  /\ (slast.op = "allocate" /\ slast.ptr # NULL) =>
        /\ slast.ptr % slast.alignment = 0
        /\ stack.m_memory + slast.offset_before <= slast.ptr
        /\ slast.size >= 0
        /\ slast.ptr + slast.size = stack.m_memory + stack.m_offset
        /\ stack.m_memory + stack.m_offset <= stack.m_memory + stack.m_size
  /\ \A a, b \in strail.ptrs : a # b => StackDisjoint(a, b)

\* C15: after s = savepoint(), allocate calls and rewind(s), used() is s,
\* free() is what it was at the savepoint, and the same allocate calls
\* return the same addresses again.
C15_SavepointRoundTrip ==
  slast.op = "rollback" =>
     /\ stack.st = "ok"
     /\ stack_used_size(stack) = strail.mark
     /\ free_size(stack) = strail.free
     /\ ReplaysFrom(stack, strail.calls, 1)

\* C16: a move leaves the destination with the members the source had and
\* the source inert; a self move assignment changes nothing; and over moves
\* and destructions every region obtained from operator new is released
\* once: no address is released twice, none that was not acquired, and all
\* are released once every object is destroyed.
C16_MovesKeepOneOwner ==
  /\ (mlast.op \in {"move_construct", "move_assign"} /\ mlast.dst # mlast.src) =>
        /\ objs[mlast.dst].e = objs[mlast.src].was
        /\ objs[mlast.src].e.m_memory = NULL
        /\ capacity(objs[mlast.src].kind, objs[mlast.src].e) = 0
        /\ ~objs[mlast.src].e.m_owns_memory
        /\ obj_allocate(objs[mlast.src].kind, objs[mlast.src].e).ret = NULL
  /\ (mlast.op = "move_assign" /\ mlast.dst = mlast.src) =>
        objs[mlast.dst].e = objs[mlast.dst].was
  /\ \A i, j \in 1 .. Len(dels) : i # j => dels[i] # dels[j]
  /\ \A i \in 1 .. Len(dels) : dels[i] \in news
  /\ (\A x \in Slots : objs[x].life # "alive") =>
        \A r \in news : \E i \in 1 .. Len(dels) : dels[i] = r

-----------------------------------------------------------------------------
\* A Best fit heap driven long enough to free two blocks that differ in size
\* and in the padding an aligned request needs in them.

FitMaxOps == 6         \* heap calls per run
FitCap == 192          \* bytes of the backing region

FitRequests == {<<16, 1>>, <<8, 1>>, <<8, 16>>}

FitInit ==
  /\ heap = Construct(4096, FitCap, "BestFit", 170)
  /\ hlive = {}
  /\ hlast = NoCall
  /\ hops = 0
  /\ PoolAtRest /\ StackAtRest /\ MoveAtRest
  /\ ThreadsAtRest /\ AdapterAtRest /\ TwinAtRest

FitAllocate(size, alignment) == AllocateWithin(FitMaxOps, size, alignment)

FitDeallocate(a, how) == DeallocateWithin(FitMaxOps, a, how)

FitNext ==
  \/ \E rq \in FitRequests : FitAllocate(rq[1], rq[2])
  \/ \E a \in hlive, how \in BoolReads : FitDeallocate(a, how)

SpecFit == FitInit /\ [][FitNext]_vars

-----------------------------------------------------------------------------
\* The fit strategies, judged on the freelist a search starts from.

\* The size a request is searched with (allocate rounds it up first).
FitSize(size0) == UMax(size0, MIN_BLOCK_SIZE)

\* Block b fits the request: b.size >= padding(addr(b) + HSZ, align) + size,
\* with b's own padding, the size as the caller passed it and the sum exact.
Fits(h, b, size0, alignment) ==
  ~ExactOver(calc_padding(b + HEADER_SIZE, alignment), size0, SizeOf(h, b))

\* The positions of the freelist whose block fits the request.
Fitting(h, size0, alignment) ==
  {i \in 1 .. Len(FreeList(h)) : Fits(h, FreeList(h)[i], size0, alignment)}

\* The first position of the freelist holding block b (0 when it holds none).
PositionOf(h, b) ==
  IF \E i \in 1 .. Len(FreeList(h)) : FreeList(h)[i] = b
  THEN CHOOSE i \in 1 .. Len(FreeList(h)) :
         FreeList(h)[i] = b /\ \A j \in 1 .. (i - 1) : FreeList(h)[j] # b
  ELSE 0

\* C17: under Best fit the search returns a fitting block of minimal size,
\* the earliest in freelist order among equals, and null exactly when no
\* block fits; stated on freelists that end in null, where every block is
\* measured with its own padding.
C17_BestFitIsSmallest ==
  (heap.st = "ok" /\ heap.m_strategy = "BestFit" /\ free_block_count(heap) >= 0) =>
    \A rq \in FitRequests :
      LET b == find_best_fit(heap, FitSize(rq[1]), rq[2])
          F == Fitting(heap, rq[1], rq[2])
      IN IF F = {} THEN b = NULL
         ELSE /\ PositionOf(heap, b) \in F
              /\ \A i \in F :
                   \/ SizeOf(heap, FreeList(heap)[i]) > SizeOf(heap, b)
                   \/ /\ SizeOf(heap, FreeList(heap)[i]) = SizeOf(heap, b)
                      /\ PositionOf(heap, b) <= i

\* C18: under First fit, allocate(size, align) with size > 0 uses the first
\* block in freelist order with b.size >= padding(addr(b) + HSZ, align) +
\* size, and the search gives null exactly when no block of the list
\* satisfies that inequality.
C18_FirstFitIsFirst ==
  (heap.st = "ok" /\ heap.m_strategy = "FirstFit") =>
    \A rq \in Requests :
      rq[1] # 0 =>
        LET b == find_first_fit(heap, FitSize(rq[1]), rq[2])
            F == Fitting(heap, rq[1], rq[2])
        IN IF F = {} THEN b = NULL
           ELSE /\ PositionOf(heap, b) \in F
                /\ \A i \in F : PositionOf(heap, b) <= i

\* C19: under Worst fit the search returns a fitting block of maximal size,
\* the earliest in freelist order among equals, and null exactly when no
\* block of the list fits.
C19_WorstFitIsLargest ==
  (heap.st = "ok" /\ heap.m_strategy = "WorstFit") =>
    \A rq \in Requests :
      rq[1] # 0 =>
        LET b == find_worst_fit(heap, FitSize(rq[1]), rq[2])
            F == Fitting(heap, rq[1], rq[2])
        IN IF F = {} THEN b = NULL
           ELSE /\ PositionOf(heap, b) \in F
                /\ \A i \in F :
                     \/ SizeOf(heap, FreeList(heap)[i]) < SizeOf(heap, b)
                     \/ /\ SizeOf(heap, FreeList(heap)[i]) = SizeOf(heap, b)
                        /\ PositionOf(heap, b) <= i

\* C20: after reset the heap reports nothing used, its freelist is the one
\* block at the base of size capacity - HEADER_SIZE, and a request for
\* capacity - HEADER_SIZE bytes at the default alignment is served.
C20_ResetServesWholeRegion ==
  (heap.st = "ok" /\ hlast.op = "reset") =>
    /\ used_size(heap) = 0
    /\ FreeList(heap) = <<heap.m_memory>>
    /\ SizeOf(heap, heap.m_memory) = heap.m_size - HEADER_SIZE
    /\ allocate(heap, heap.m_size - HEADER_SIZE, MAX_ALIGN).ret # NULL

-----------------------------------------------------------------------------
\* Requests that cannot be served.

\* C21: when no freelist block fits the request, allocate returns null and
\* leaves the engine as it was: used bytes, the freelist and every header
\* byte of the region (all of the object's state and memory).
C21_ExhaustionLeavesState ==
  heap.st = "ok" =>
    \A rq \in Requests :
      (rq[1] # 0 /\ Fitting(heap, rq[1], rq[2]) = {}) =>
         /\ allocate(heap, rq[1], rq[2]).ret = NULL
         /\ allocate(heap, rq[1], rq[2]).h = heap

-----------------------------------------------------------------------------
\* The pool's order of service.

\* The pointers n allocate() calls in a row return, starting from pl.
RECURSIVE PoolDrain(_, _)
PoolDrain(pl, n) ==
  IF n = 0 THEN <<>>
  ELSE <<pool_allocate(pl, 0, 0).ret>> \o PoolDrain(pool_allocate(pl, 0, 0).pl, n - 1)

\* The pool after n allocate() calls in a row.
RECURSIVE PoolAfter(_, _)
PoolAfter(pl, n) ==
  IF n = 0 THEN pl ELSE PoolAfter(pool_allocate(pl, 0, 0).pl, n - 1)

\* The chunk addresses in address order.
ChunkSeq(pl) == [i \in 1 .. pl.m_chunk_count |-> pl.m_memory + (i - 1) * pl.m_chunk_size]

Reversed(q) == [i \in 1 .. Len(q) |-> q[Len(q) + 1 - i]]

\* C24: after deallocate(p) of a live chunk the next allocate() returns p,
\* and the chunks given back since they were last handed out come out in
\* the reverse of the order in which they were given back.
C24_PoolLifo ==
  pool.st = "ok" =>
     /\ plast.op = "deallocate" => PoolDrain(pool, 1) = <<plast.ptr>>
     /\ PoolDrain(pool, Len(pfreed)) = Reversed(pfreed)

\* C24, the case reached: three chunks given back one after the other, in
\* an order that is not the address order in either direction.
C24_ThreeReturned ==
  /\ pool.st = "ok" /\ plast.op = "deallocate"
  /\ Len(pfreed) = 3
  /\ ~(pfreed[1] < pfreed[2] /\ pfreed[2] < pfreed[3])
  /\ ~(pfreed[1] > pfreed[2] /\ pfreed[2] > pfreed[3])

\* C25: a fresh or reset pool of N chunks serves exactly N allocate() calls,
\* with N distinct chunks, and then has no free chunk; the next call returns
\* null and changes nothing; after one deallocate a call succeeds again.
\* A call made on an empty list returns null and leaves the counts alone.
C25_PoolExhaustion ==
  /\ (pool.st = "ok" /\ plast.op \in {"construct", "borrow", "reset"}) =>
        /\ \A i \in 1 .. chunk_count(pool) :
              PoolDrain(pool, chunk_count(pool))[i] \in ChunkAddrs(pool)
        /\ \A i, j \in 1 .. chunk_count(pool) :
              i # j => PoolDrain(pool, chunk_count(pool))[i]
                         # PoolDrain(pool, chunk_count(pool))[j]
        /\ free_count(PoolAfter(pool, chunk_count(pool))) = 0
        /\ pool_used_size(PoolAfter(pool, chunk_count(pool)))
              = chunk_count(pool) * chunk_size(pool)
        /\ pool_allocate(PoolAfter(pool, chunk_count(pool)), 0, 0)
              = [pl |-> PoolAfter(pool, chunk_count(pool)), ret |-> NULL]
        /\ chunk_count(pool) > 0 =>
              pool_allocate(pool_deallocate(PoolAfter(pool, chunk_count(pool)),
                                            pool.m_memory), 0, 0).ret = pool.m_memory
  /\ (pool.st = "ok" /\ plast.op = "allocate" /\ plast.head_before = NULL) =>
        /\ plast.ptr = NULL
        /\ pool.m_free_list = NULL
        /\ free_count(pool) = 0
        /\ pool_used_size(pool) = chunk_count(pool) * chunk_size(pool)

\* C25, the case reached: a pool of at least three chunks, all handed out
\* by allocate() calls, has just refused one more.
C25_OneTooMany ==
  /\ pool.st = "ok" /\ chunk_count(pool) >= 3
  /\ Cardinality(plive) = chunk_count(pool)
  /\ plast.op = "allocate" /\ plast.ptr = NULL

\* C26: reset() makes free_count() = N and used_size() = 0 and links the
\* chunks in address order, so the next N allocate() calls return base,
\* base + S, ..., base + (N-1)*S; the first of them is what the first
\* allocate() after construction returns.
C26_PoolResetRebuilds ==
  /\ (pool.st = "ok" /\ plast.op = "reset") =>
        /\ free_count(pool) = chunk_count(pool)
        /\ pool_used_size(pool) = 0
        /\ PoolList(pool) = ChunkSeq(pool)
        /\ PoolDrain(pool, chunk_count(pool)) = ChunkSeq(pool)
  /\ (pool.st = "ok" /\ plast.op \in {"construct", "borrow"} /\ chunk_count(pool) > 0) =>
        PoolDrain(pool, 1) = <<pool.m_memory>>

\* C26, the case reached: reset() on a pool of at least three chunks whose
\* list did not start at the base and that had chunks handed out.
C26_ResetAfterUse ==
  /\ pool.st = "ok" /\ plast.op = "reset"
  /\ chunk_count(pool) >= 3
  /\ plast.head_before \notin {NULL, pool.m_memory}

\* The addresses owns() is asked about: every byte from 8 below the base to
\* one chunk beyond the last chunk.
PoolProbes(pl) ==
  {pl.m_memory + d : d \in (0 - 8) .. ((pl.m_chunk_count + 1) * pl.m_chunk_size)}

\* C27: owns(p) is true iff p is the start of one of the N chunks; bytes of
\* a borrowed buffer beyond the last chunk are not owned.
C27_OwnsIsChunkStart ==
  pool.st = "ok" =>
     \A p \in PoolProbes(pool) : pool_owns(pool, p) <=> p \in ChunkAddrs(pool)

\* C28: chunk_size() is max(C, sizeof(void*)) rounded up to the next multiple
\* of the alignment A, the base is a multiple of A, and so is every pointer
\* allocate() returns.
C28_PoolLayout ==
  pool.st = "ok" =>
     /\ plast.op \in {"construct", "borrow"} =>
           /\ chunk_size(pool) % plast.alignment = 0
           /\ chunk_size(pool) >= Max(plast.chunk, PTR_SIZE)
           /\ chunk_size(pool) - Max(plast.chunk, PTR_SIZE) < plast.alignment
           /\ pool.m_alignment = plast.alignment
     /\ pool.m_memory % pool.m_alignment = 0
     /\ chunk_size(pool) % pool.m_alignment = 0
     /\ \A p \in plive : p % pool.m_alignment = 0
     /\ (plast.op = "allocate" /\ plast.ptr # NULL) => plast.ptr % pool.m_alignment = 0

\* C28, the case reached: a chunk size of 10 with alignment 64 gives chunks
\* of 64 bytes, and the second chunk of such a pool has been handed out.
C28_TenBecomesSixtyFour ==
  /\ pool.st = "ok" /\ pool.m_alignment = 64 /\ chunk_size(pool) = 64
  /\ pool.m_owns_memory
  /\ plast.op = "allocate" /\ plast.ptr = pool.m_memory + 64

\* allocate(size, alignment) arguments the pool is probed with.
PoolProbeRequests == {<<0, 0>>, <<0, 16>>, <<1, 1>>, <<8, 4096>>, <<1000, 16>>}

\* C29: allocate(size, alignment) returns what allocate() returns and leaves
\* the pool as allocate() leaves it, whatever size and alignment are: the
\* head chunk while one is free, null otherwise.
C29_PoolIgnoresArguments ==
  pool.st = "ok" =>
     /\ \A rq \in PoolProbeRequests :
           pool_allocate(pool, rq[1], rq[2]) = pool_allocate(pool, 0, 0)
     /\ pool_allocate(pool, 0, 0).ret = pool.m_free_list
     /\ plast.op = "allocate" => plast.ptr = plast.head_before

\* C29, the case reached: a request for more bytes than a chunk holds was
\* served with the head chunk, which was not the first chunk.
C29_OversizedServed ==
  /\ pool.st = "ok" /\ plast.op = "allocate"
  /\ plast.size > chunk_size(pool)
  /\ plast.ptr # NULL /\ plast.ptr = plast.head_before
  /\ plast.ptr # pool.m_memory

-----------------------------------------------------------------------------
\* The bump engine at its boundary.

\* The padding allocate() puts before a pointer of the given alignment.
StackPad(sa, alignment) == calc_padding(sa.m_memory + sa.m_offset, alignment)

\* cursor + pad + size <= cap in unbounded arithmetic.  A size held as a
\* negative number is 2^64 minus its magnitude, above every capacity.
StackFits(sa, size, alignment) ==
  size > 0 /\ sa.m_offset + StackPad(sa, alignment) + size <= sa.m_size

\* The bytes between the padded cursor and the end of the region.
StackRoom(sa, alignment) == sa.m_size - sa.m_offset - StackPad(sa, alignment)

StackAlignments == {1, 8, 16, 64}

\* C23: allocate(size, align) with size > 0 succeeds iff cursor + pad + size
\* <= cap; a request for exactly the room left succeeds and leaves free() =
\* 0, one for a byte more returns null, and a refused call leaves the object
\* as it was, so that a smaller request that fits is still served.
C23_BumpBoundary ==
  stack.st = "ok" =>
     /\ \A rq \in StackRequests :
           rq[1] # 0 =>
             /\ stack_allocate(stack, rq[1], rq[2]).ret # NULL
                   <=> StackFits(stack, rq[1], rq[2])
             /\ stack_allocate(stack, rq[1], rq[2]).ret = NULL
                   => stack_allocate(stack, rq[1], rq[2]).s = stack
     /\ \A al \in StackAlignments :
           StackRoom(stack, al) > 0 =>
             /\ stack_allocate(stack, StackRoom(stack, al), al).ret # NULL
             /\ free_size(stack_allocate(stack, StackRoom(stack, al), al).s) = 0
             /\ stack_allocate(stack, StackRoom(stack, al) + 1, al)
                   = [s |-> stack, ret |-> NULL]
     /\ (slast.op = "allocate" /\ slast.ptr = NULL) =>
           stack.m_offset = slast.offset_before

\* C30: with no rollback and no reset the cursor never goes down: an
\* allocate that succeeds moves it up and returns an address above every
\* pointer returned before; an allocate that fails, deallocate, get_marker,
\* owns and the size queries leave the object as it was.
C30_CursorMonotonic ==
  /\ (slast.op = "allocate" /\ slast.ptr # NULL) =>
        /\ stack.m_offset > slast.offset_before
        /\ \A a \in strail.ptrs :
              a # [ptr |-> slast.ptr, size |-> slast.size] => a.ptr < slast.ptr
  /\ (slast.op = "allocate" /\ slast.ptr = NULL) =>
        stack.m_offset = slast.offset_before
  /\ slast.op \in {"deallocate", "get_marker"} =>
        stack.m_offset = slast.offset_before
  /\ \A a \in strail.ptrs : stack_deallocate(stack, a.ptr) = stack

-----------------------------------------------------------------------------
\* A program that holds a heap and a bump allocator side by side and calls
\* either of them.

ZeroMaxOps == 3        \* calls per run, over both engines

\* Alignment arguments, powers of two or not: with size 0 the alignment is
\* never looked at.
ZeroAlignments == {0, 1, 3, 8, 16, 64}

ZeroInit ==
  /\ \E strategy \in Strategies, fill \in InitBytes :
       heap = Construct(4096, HeapCap, strategy, fill)
  /\ hlive = {}
  /\ hlast = NoCall
  /\ hops = 0
  /\ stack = StackConstruct(4100, StackCap, FALSE, FALSE)
  /\ slast = NoStackCall
  /\ strail = NoTrail
  /\ sops = 0
  /\ PoolAtRest /\ MoveAtRest
  /\ ThreadsAtRest /\ AdapterAtRest /\ TwinAtRest

ZeroOpen == hops + sops < ZeroMaxOps

ZeroNext ==
  \/ \E rq \in Requests : ZeroOpen /\ Allocate(rq[1], rq[2])
  \/ \E a \in hlive, how \in BoolReads : ZeroOpen /\ Deallocate(a, how)
  \/ ZeroOpen /\ Reset
  \/ \E a \in hlive, v \in FillBytes : ZeroOpen /\ Fill(a, v)
  \/ \E rq \in StackRequests : ZeroOpen /\ StackAllocate(rq[1], rq[2])
  \/ \E a \in strail.ptrs : ZeroOpen /\ StackDeallocate(a)
  \/ ZeroOpen /\ StackReset
  \/ ZeroOpen /\ StackMark
  \/ ZeroOpen /\ StackRollback

SpecZero == ZeroInit /\ [][ZeroNext]_vars

\* C22: on the bump engine and on the heap engine allocate(0, align)
\* returns null for every alignment, in every state, and leaves the object
\* and its memory as they were.
C22_ZeroSizeRefused ==
  /\ heap.st = "ok" =>
        \A al \in ZeroAlignments :
          allocate(heap, 0, al) = [h |-> heap, ret |-> NULL, block |-> NULL]
  /\ stack.st = "ok" =>
        \A al \in ZeroAlignments :
          stack_allocate(stack, 0, al) = [s |-> stack, ret |-> NULL]
  /\ (hlast.op = "allocate" /\ hlast.size = 0) =>
        hlast.ptr = NULL /\ heap.m_used = hlast.used_before
  /\ (slast.op = "allocate" /\ slast.size = 0) =>
        slast.ptr = NULL /\ stack.m_offset = slast.offset_before

\* C22, the case reached: both engines hold allocations, the bump cursor is
\* off the requested alignment, and an allocate(0, 16) has just come back.
C22_ZeroAskedInUse ==
  /\ heap.st = "ok" /\ heap.m_used > 0
  /\ stack.m_offset > 0 /\ (stack.m_memory + stack.m_offset) % 16 # 0
  /\ \/ hlast.op = "allocate" /\ hlast.size = 0 /\ hlast.alignment = 16
     \/ slast.op = "allocate" /\ slast.size = 0 /\ slast.alignment = 16

-----------------------------------------------------------------------------
\* The bump engine after reset().

\* C31: reset() gives used() = 0 and free() = capacity() from every state,
\* and on an owned region an allocate of the whole capacity with the default
\* alignment then returns the base and takes every byte.
C31_ResetFreesAll ==
  /\ stack.st = "ok" =>
        /\ stack_used_size(stack_reset(stack)) = 0
        /\ free_size(stack_reset(stack)) = stack_total_size(stack)
        /\ stack.m_owns_memory =>
              /\ stack_allocate(stack_reset(stack), stack.m_size, MAX_ALIGN).ret
                    = stack.m_memory
              /\ stack.m_size > 0 =>
                    /\ stack_allocate(stack_reset(stack), stack.m_size, MAX_ALIGN).ret # NULL
                    /\ free_size(stack_allocate(stack_reset(stack), stack.m_size,
                                                MAX_ALIGN).s) = 0
  /\ slast.op = "reset" =>
        /\ stack_used_size(stack) = 0
        /\ free_size(stack) = stack_total_size(stack)
        /\ stack.m_owns_memory =>
              stack_allocate(stack, stack.m_size, MAX_ALIGN).ret = stack.m_memory

\* C31, the case reached: reset() on an owned region of which more than half
\* was in use.
C31_ResetAfterUse ==
  /\ slast.op = "reset" /\ stack.st = "ok"
  /\ stack.m_owns_memory /\ stack.m_size > 0
  /\ slast.offset_before > 64

-----------------------------------------------------------------------------
\* ThreadSafeAllocator<PoolAllocator>: several threads call one pool through
\* the wrapper.  A call is the lock_guard's constructor, the statements of
\* the pool's member function, and the lock_guard's destructor at the
\* return; between them other threads run.

ThreadMaxOps == 4      \* calls per run, over all threads

Threads == {1, 2}
\* The members of the wrapper.
ThreadCalls == {"allocate", "deallocate", "reset", "owns", "total_size", "used_size"}
\* Members that leave the pool as it is.
ThreadQueries == {"owns", "total_size", "used_size"}
\* PoolAllocator(chunk_size, chunk_count, alignment) for the wrapped pool.
ThreadPools == {<<64, 2, 16>>, <<8, 3, 8>>}

\* The arguments of a call: none, a chunk, an address inside a chunk.
ThreadArgs(pl) == {NULL, pl.m_memory + 4} \cup ChunkAddrs(pl)

\* A mutex that lets every caller in.
mutex_ignored(m) == TRUE

\* std::mutex::lock() returns when no thread holds the mutex.
mutex_available(m) == m = 0

Idle == [pc |-> "idle", op |-> "none", arg |-> NULL, ptr |-> NULL, ret |-> 0,
         held |-> {}, snap |-> PoolIdle]

\* What the call returns when it runs alone on pool pl, and the pool it
\* leaves; a bool is 1 or 0, and a void call returns 0 here.
serial(pl, op, arg) ==
  CASE op = "allocate"   -> [pl |-> pool_allocate(pl, 0, 0).pl,
                             ret |-> pool_allocate(pl, 0, 0).ret]
    [] op = "deallocate" -> [pl |-> pool_deallocate(pl, arg), ret |-> 0]
    [] op = "reset"      -> [pl |-> pool_reset(pl), ret |-> 0]
    [] op = "owns"       -> [pl |-> pl, ret |-> IF pool_owns(pl, arg) THEN 1 ELSE 0]
    [] op = "total_size" -> [pl |-> pl, ret |-> pool_total_size(pl)]
    [] op = "used_size"  -> [pl |-> pl, ret |-> pool_used_size(pl)]

ThreadInit ==
  /\ \E cfg \in ThreadPools : pool = PoolConstruct(4096, cfg[1], cfg[2], cfg[3])
  /\ plive = {}
  /\ plast = NoPoolCall
  /\ pfreed = <<>>
  /\ pops = 0
  /\ thr = [t \in Threads |-> Idle]
  /\ mutex = 0
  /\ HeapAtRest /\ StackAtRest /\ MoveAtRest
  /\ AdapterAtRest /\ TwinAtRest

\* A reset() is under way: the program has stopped handing chunks around.
ResetPending == \E u \in Threads : thr[u].pc # "idle" /\ thr[u].op = "reset"

\* Thread t calls a member of the wrapper and arrives at its lock_guard.
\* deallocate is given a chunk the thread holds; reset is called when no
\* other thread is in a call or holds a chunk, and until it has returned the
\* other threads only ask questions.
ThreadCall(t, op, arg) ==
  /\ pops < ThreadMaxOps
  /\ thr[t].pc = "idle"
  /\ op = "deallocate" => arg \in thr[t].held
  /\ op = "owns" => arg \in {pool.m_memory, pool.m_memory + 4}
  /\ arg \in ThreadArgs(pool)
  /\ op \notin {"deallocate", "owns"} => arg = NULL
  /\ op = "reset" => \A u \in Threads \ {t} : thr[u].pc = "idle" /\ thr[u].held = {}
  /\ ResetPending => op \in ThreadQueries
  /\ thr' = [thr EXCEPT ![t] = [@ EXCEPT !.pc = "waiting", !.op = op, !.arg = arg,
                                         !.ptr = NULL, !.ret = 0]]
  /\ pops' = pops + 1
  /\ UNCHANGED <<pool, plive, plast, pfreed, mutex, hvars, svars, mvars, avars, wvars>>

\* std::lock_guard<std::mutex> lock(m_mutex).
ThreadLock(t) ==
  /\ thr[t].pc = "waiting"
  /\ mutex_available(mutex)
  /\ mutex' = t
  /\ thr' = [thr EXCEPT ![t] = [@ EXCEPT !.pc = "inside", !.snap = pool]]
  /\ UNCHANGED <<pool, plive, plast, pfreed, pops, hvars, svars, mvars, avars, wvars>>

\* allocate: the test of m_free_list and void* ptr = m_free_list.
PoolPeek(t) ==
  /\ thr[t].pc = "inside" /\ thr[t].op = "allocate"
  /\ thr' = [thr EXCEPT ![t] = IF pool.m_free_list = NULL
                               THEN [@ EXCEPT !.pc = "leaving", !.ret = NULL]
                               ELSE [@ EXCEPT !.pc = "popping",
                                              !.ptr = pool.m_free_list]]
  /\ UNCHANGED <<pool, plive, plast, pfreed, pops, mutex, hvars, svars, mvars, avars, wvars>>

\* allocate: m_free_list = *m_free_list; --m_free_count; return ptr.
PoolPop(t) ==
  /\ thr[t].pc = "popping"
  /\ pool' = IF pool.m_free_list = NULL THEN [pool EXCEPT !.st = "wild"]
             ELSE [pool EXCEPT !.m_free_list = pool.mem[pool.m_free_list],
                               !.m_free_count = pool.m_free_count - 1]
  /\ thr' = [thr EXCEPT ![t] = [@ EXCEPT !.pc = "leaving", !.ret = thr[t].ptr]]
  /\ UNCHANGED <<plive, plast, pfreed, pops, mutex, hvars, svars, mvars, avars, wvars>>

\* deallocate: *ptr = m_free_list.
PoolLink(t) ==
  /\ thr[t].pc = "inside" /\ thr[t].op = "deallocate"
  /\ pool' = [pool EXCEPT !.mem = [pool.mem EXCEPT ![thr[t].arg] = pool.m_free_list]]
  /\ thr' = [thr EXCEPT ![t] = [@ EXCEPT !.pc = "pushing"]]
  /\ UNCHANGED <<plive, plast, pfreed, pops, mutex, hvars, svars, mvars, avars, wvars>>

\* deallocate: m_free_list = ptr; ++m_free_count.
PoolPush(t) ==
  /\ thr[t].pc = "pushing"
  /\ pool' = [pool EXCEPT !.m_free_list = thr[t].arg,
                          !.m_free_count = pool.m_free_count + 1]
  /\ thr' = [thr EXCEPT ![t] = [@ EXCEPT !.pc = "leaving", !.ret = 0]]
  /\ UNCHANGED <<plive, plast, pfreed, pops, mutex, hvars, svars, mvars, avars, wvars>>

\* reset: init_free_list() rebuilds the list.
PoolRebuild(t) ==
  /\ thr[t].pc = "inside" /\ thr[t].op = "reset"
  /\ pool' = pool_reset(pool)
  /\ thr' = [thr EXCEPT ![t] = [@ EXCEPT !.pc = "leaving", !.ret = 0]]
  /\ UNCHANGED <<plive, plast, pfreed, pops, mutex, hvars, svars, mvars, avars, wvars>>

\* owns, total_size, used_size: the members are read and the value returned.
PoolAsk(t) ==
  /\ thr[t].pc = "inside" /\ thr[t].op \in ThreadQueries
  /\ thr' = [thr EXCEPT ![t] = [@ EXCEPT !.pc = "leaving",
                                         !.ret = serial(pool, thr[t].op, thr[t].arg).ret]]
  /\ UNCHANGED <<pool, plive, plast, pfreed, pops, mutex, hvars, svars, mvars, avars, wvars>>

\* The return: the lock_guard's destructor unlocks m_mutex and the caller
\* has the result.  After reset() no thread holds a chunk.
ThreadUnlock(t) ==
  /\ thr[t].pc = "leaving"
  /\ mutex' = 0
  /\ thr' = [u \in Threads |->
               IF thr[t].op = "reset"
               THEN [(IF u = t THEN Idle ELSE thr[u]) EXCEPT !.held = {}]
               ELSE IF u # t THEN thr[u]
               ELSE [Idle EXCEPT !.held =
                       IF thr[t].op = "allocate" /\ thr[t].ret # NULL
                       THEN thr[t].held \cup {thr[t].ret}
                       ELSE IF thr[t].op = "deallocate"
                       THEN thr[t].held \ {thr[t].arg}
                       ELSE thr[t].held]]
  /\ plive' = IF thr[t].op = "reset" THEN {}
              ELSE IF thr[t].op = "allocate" /\ thr[t].ret # NULL
              THEN plive \cup {thr[t].ret}
              ELSE IF thr[t].op = "deallocate" THEN plive \ {thr[t].arg}
              ELSE plive
  /\ plast' = [NoPoolCall EXCEPT !.op = thr[t].op, !.ptr = thr[t].ret,
                                 !.was_live = thr[t].op = "allocate"
                                              /\ thr[t].ret \in plive,
                                 !.head_before = thr[t].snap.m_free_list]
  /\ UNCHANGED <<pool, pfreed, pops, hvars, svars, mvars, avars, wvars>>

ThreadNext ==
  \/ \E t \in Threads, op \in ThreadCalls, arg \in ThreadArgs(pool) : ThreadCall(t, op, arg)
  \/ \E t \in Threads : ThreadLock(t)
  \/ \E t \in Threads : PoolPeek(t)
  \/ \E t \in Threads : PoolPop(t)
  \/ \E t \in Threads : PoolLink(t)
  \/ \E t \in Threads : PoolPush(t)
  \/ \E t \in Threads : PoolRebuild(t)
  \/ \E t \in Threads : PoolAsk(t)
  \/ \E t \in Threads : ThreadUnlock(t)

SpecThreads == ThreadInit /\ [][ThreadNext]_vars

\* The threads that are between the lock and the unlock of a call.
Inside == {t \in Threads : thr[t].pc \notin {"idle", "waiting"}}

\* C32: at most one thread at a time is inside the wrapped pool, and it
\* holds the mutex; a call that is about to return has done to the pool, and
\* returns, what the same call does when it runs alone on the pool as it was
\* when the call took the lock; no chunk is held by two threads, allocate
\* never returns a chunk that is live, and whenever no call is inside
\* free_count() is N minus the number of live chunks, the freelist being
\* the chunks that are not live.
C32_CallsSerialized ==
  /\ Cardinality(Inside) <= 1
  /\ \A t \in Inside : mutex = t
  /\ \A t \in Threads :
        thr[t].pc = "leaving" =>
           /\ pool = serial(thr[t].snap, thr[t].op, thr[t].arg).pl
           /\ thr[t].ret = serial(thr[t].snap, thr[t].op, thr[t].arg).ret
  /\ \A t, u \in Threads : t # u => thr[t].held \cap thr[u].held = {}
  /\ plive = UNION {thr[t].held : t \in Threads}
  /\ plast.op = "allocate" => ~plast.was_live
  /\ pool.st = "ok"
  /\ Inside = {} =>
        /\ free_count(pool) = chunk_count(pool) - Cardinality(plive)
        /\ SeqSet(PoolList(pool)) = ChunkAddrs(pool) \ plive
        /\ Len(PoolList(pool)) = free_count(pool)
        /\ pool_used_size(pool) = Cardinality(plive) * chunk_size(pool)

\* C32, the case reached: a thread is between the two statements of
\* allocate while another, which already holds a chunk, waits at the lock
\* with an allocate of its own.
C32_ContendedAllocate ==
  \E t, u \in Threads :
    /\ thr[t].pc = "popping"
    /\ thr[u].pc = "waiting" /\ thr[u].op = "allocate" /\ thr[u].held # {}
    /\ mutex = t

-----------------------------------------------------------------------------
\* STLAdapter<T, Allocator>: a container's view of an engine.

AdapterMaxOps == 4     \* calls through the adapter per run

\* sizeof(T), alignof(T): int, and a pointer-sized type.
AdapterElems == {<<4, 4>>, <<8, 8>>}
\* allocate(n) arguments.
AdapterCounts == {0, 1, 4, 20}
AdapterKinds == {"heap", "pool", "stack"}

\* m_allocator->allocate(size, alignment) on an engine of the class.
engine_allocate(kind, e, size, alignment) ==
  CASE kind = "stack" -> [e |-> stack_allocate(e, size, alignment).s,
                          ret |-> stack_allocate(e, size, alignment).ret]
    [] kind = "pool"  -> [e |-> pool_allocate(e, size, alignment).pl,
                          ret |-> pool_allocate(e, size, alignment).ret]
    [] kind = "heap"  -> [e |-> allocate(e, size, alignment).h,
                          ret |-> allocate(e, size, alignment).ret]

\* m_allocator->deallocate(ptr, size).
engine_deallocate(kind, e, ptr, how) ==
  CASE kind = "stack" -> stack_deallocate(e, ptr)
    [] kind = "pool"  -> pool_deallocate(e, ptr)
    [] kind = "heap"  -> deallocate(e, ptr, how)

\* What the engine call inside allocate(n) came back with.
adapter_result(e, q) ==
  IF q.ret = NULL
  THEN [e |-> q.e, ret |-> NULL, thrown |-> TRUE, engine_calls |-> 1]
  ELSE [e |-> q.e, ret |-> q.ret, thrown |-> FALSE, engine_calls |-> 1]

\* An allocate(n) that hands the engine's null to the container.
adapter_allocate_quiet(kind, e, n, elem) ==
  IF n = 0 THEN [e |-> e, ret |-> NULL, thrown |-> FALSE, engine_calls |-> 0]
  ELSE [e |-> engine_allocate(kind, e, n * elem[1], elem[2]).e,
        ret |-> engine_allocate(kind, e, n * elem[1], elem[2]).ret,
        thrown |-> FALSE, engine_calls |-> 1]

\* STLAdapter::allocate(n): thrown says that the call left by throwing
\* std::bad_alloc instead of returning.
adapter_allocate(kind, e, n, elem) ==
  IF n = 0 THEN [e |-> e, ret |-> NULL, thrown |-> FALSE, engine_calls |-> 0]
  ELSE adapter_result(e, engine_allocate(kind, e, n * elem[1], elem[2]))

\* STLAdapter::deallocate(ptr, n).
adapter_deallocate(kind, e, ptr, n, how) ==
  IF ptr # NULL THEN engine_deallocate(kind, e, ptr, how) ELSE e

\* The engine object the adapter points to.
Wrapped == CASE alast.kind = "heap"  -> heap
             [] alast.kind = "pool"  -> pool
             [] alast.kind = "stack" -> stack

AdapterInit ==
  /\ \E elem \in AdapterElems, kind \in AdapterKinds :
       /\ alast = [NoAdapterCall EXCEPT !.kind = kind, !.elem = elem]
       /\ heap = IF kind = "heap" THEN Construct(4096, HeapCap, "FirstFit", 170)
                 ELSE HeapIdle
       /\ pool = IF kind = "pool" THEN PoolConstruct(4096, 8, 3, 8) ELSE PoolIdle
       /\ stack = IF kind = "stack" THEN StackConstruct(4096, StackCap, TRUE, FALSE)
                  ELSE StackIdle
  /\ alive = {}
  /\ hlive = {} /\ hlast = NoCall /\ hops = 0
  /\ plive = {} /\ plast = NoPoolCall /\ pfreed = <<>> /\ pops = 0
  /\ slast = NoStackCall /\ strail = NoTrail /\ sops = 0
  /\ MoveAtRest /\ ThreadsAtRest /\ TwinAtRest

AdapterAllocate(n) ==
  /\ alast.made < AdapterMaxOps
  /\ Wrapped.st = "ok"
  /\ LET r == adapter_allocate(alast.kind, Wrapped, n, alast.elem)
     IN /\ heap' = IF alast.kind = "heap" THEN r.e ELSE heap
        /\ pool' = IF alast.kind = "pool" THEN r.e ELSE pool
        /\ stack' = IF alast.kind = "stack" THEN r.e ELSE stack
        /\ alast' = [alast EXCEPT !.op = "allocate", !.n = n, !.ptr = r.ret,
                                  !.thrown = r.thrown,
                                  !.engine_calls = r.engine_calls,
                                  !.unchanged = (r.e = Wrapped),
                                  !.made = @ + 1]
        /\ alive' = IF r.ret # NULL THEN alive \cup {[ptr |-> r.ret, n |-> n]}
                    ELSE alive
  /\ UNCHANGED <<hlive, hlast, hops, plive, plast, pfreed, pops, slast, strail, sops,
                 mvars, tvars, wvars>>

AdapterDeallocate(a, how) ==
  /\ alast.made < AdapterMaxOps
  /\ Wrapped.st = "ok"
  /\ LET e == adapter_deallocate(alast.kind, Wrapped, a.ptr, a.n, how)
     IN /\ heap' = IF alast.kind = "heap" THEN e ELSE heap
        /\ pool' = IF alast.kind = "pool" THEN e ELSE pool
        /\ stack' = IF alast.kind = "stack" THEN e ELSE stack
        /\ alast' = [alast EXCEPT !.op = "deallocate", !.n = a.n, !.ptr = a.ptr,
                                  !.thrown = FALSE, !.engine_calls = 1,
                                  !.unchanged = (e = Wrapped),
                                  !.made = @ + 1]
  /\ alive' = alive \ {a}
  /\ UNCHANGED <<hlive, hlast, hops, plive, plast, pfreed, pops, slast, strail, sops,
                 mvars, tvars, wvars>>

AdapterNext ==
  \/ \E n \in AdapterCounts : AdapterAllocate(n)
  \/ \E a \in alive, how \in BoolReads : AdapterDeallocate(a, how)

SpecAdapter == AdapterInit /\ [][AdapterNext]_vars

\* C33: allocate(0) returns null and makes no engine call; for n > 0 the
\* adapter returns the engine's pointer when the engine returns one and
\* throws bad_alloc when the engine returns null, so it never returns null
\* for n > 0; and a call that fails leaves the engine as it was.
C33_AdapterTranslates ==
  /\ Wrapped.st = "ok" =>
        \A n \in AdapterCounts :
          IF n = 0
          THEN adapter_allocate(alast.kind, Wrapped, n, alast.elem)
                 = [e |-> Wrapped, ret |-> NULL, thrown |-> FALSE, engine_calls |-> 0]
          ELSE IF engine_allocate(alast.kind, Wrapped, n * alast.elem[1],
                                  alast.elem[2]).ret = NULL
          THEN adapter_allocate(alast.kind, Wrapped, n, alast.elem)
                 = [e |-> Wrapped, ret |-> NULL, thrown |-> TRUE, engine_calls |-> 1]
          ELSE adapter_allocate(alast.kind, Wrapped, n, alast.elem)
                 = [e |-> engine_allocate(alast.kind, Wrapped, n * alast.elem[1],
                                          alast.elem[2]).e,
                    ret |-> engine_allocate(alast.kind, Wrapped, n * alast.elem[1],
                                            alast.elem[2]).ret,
                    thrown |-> FALSE, engine_calls |-> 1]
  /\ alast.op = "allocate" =>
        /\ alast.n = 0 => alast.ptr = NULL /\ ~alast.thrown /\ alast.engine_calls = 0
        /\ alast.n = 0 => alast.unchanged
        /\ (alast.n > 0 /\ ~alast.thrown) => alast.ptr # NULL
        /\ alast.thrown => alast.n > 0 /\ alast.ptr = NULL /\ alast.unchanged

\* C33, the case reached: an engine that still has arrays out has refused a
\* request and the adapter has thrown.
C33_RefusedAndThrown ==
  /\ alast.op = "allocate" /\ alast.thrown /\ alast.n > 0
  /\ alive # {}
  /\ Wrapped.st = "ok"

-----------------------------------------------------------------------------
\* The heap's freelist against the blocks of the region.

\* The blocks of the address-order walk whose is_free flag is set.
FreeBlocks(h) == {b \in SeqSet(Blocks(h)) : IsFreeByte(h, b) # 0}

\* C34: after every public operation the list from m_free_list ends in null
\* without meeting a node twice, its nodes are exactly the blocks of the
\* region walk whose is_free flag is true, no live block is on it, and
\* free_block_count() is the number of free blocks of the walk.
C34_FreeListIsFreeBlocks ==
  heap.st = "ok" =>
     /\ free_block_count(heap) >= 0
     /\ SeqSet(FreeList(heap)) = FreeBlocks(heap)
     /\ free_block_count(heap) = Cardinality(FreeBlocks(heap))
     /\ \A a \in hlive : a.hdr \notin SeqSet(FreeList(heap))

\* The block the search picks for a request, and its padding there.
Chosen(h, rq) == find_block(h, FitSize(rq[1]), rq[2])
ChosenPad(h, rq) == calc_padding(Chosen(h, rq) + HEADER_SIZE, rq[2])

\* The bytes of the request inside its block: padding plus effective size.
Taken(h, rq) == ChosenPad(h, rq) + FitSize(rq[1])

\* The heap after allocate() has served the request.
Served(h, rq) == allocate(h, rq[1], rq[2]).h

\* C35: when the chosen block b has b.size >= pad + size + HSZ + MIN_PAYLOAD
\* it is split: b's size becomes pad + size, a free block of size b.size -
\* (pad + size) - HSZ >= MIN_PAYLOAD starts at b + HSZ + pad + size and is on
\* the freelist, and free_block_count() is unchanged; otherwise b keeps its
\* size, the region holds the blocks it held, and free_block_count() goes
\* down by one.
C35_SplitThreshold ==
  heap.st = "ok" =>
    \A rq \in Requests :
      (rq[1] # 0 /\ Chosen(heap, rq) > NULL) =>
        IF SizeOf(heap, Chosen(heap, rq))
             >= Taken(heap, rq) + HEADER_SIZE + MIN_BLOCK_SIZE
        THEN /\ Served(heap, rq).st = "ok"
             /\ SizeOf(Served(heap, rq), Chosen(heap, rq)) = Taken(heap, rq)
             /\ SizeOf(Served(heap, rq),
                       Chosen(heap, rq) + HEADER_SIZE + Taken(heap, rq))
                  = SizeOf(heap, Chosen(heap, rq)) - Taken(heap, rq) - HEADER_SIZE
             /\ SizeOf(Served(heap, rq),
                       Chosen(heap, rq) + HEADER_SIZE + Taken(heap, rq)) >= MIN_BLOCK_SIZE
             /\ IsFreeByte(Served(heap, rq),
                           Chosen(heap, rq) + HEADER_SIZE + Taken(heap, rq)) = 1
             /\ Chosen(heap, rq) + HEADER_SIZE + Taken(heap, rq)
                  \in SeqSet(FreeList(Served(heap, rq)))
             /\ SeqSet(Blocks(Served(heap, rq)))
                  = SeqSet(Blocks(heap))
                      \cup {Chosen(heap, rq) + HEADER_SIZE + Taken(heap, rq)}
             /\ free_block_count(Served(heap, rq)) = free_block_count(heap)
        ELSE /\ Served(heap, rq).st = "ok"
             /\ SizeOf(Served(heap, rq), Chosen(heap, rq))
                  = SizeOf(heap, Chosen(heap, rq))
             /\ Blocks(Served(heap, rq)) = Blocks(heap)
             /\ free_block_count(Served(heap, rq)) = free_block_count(heap) - 1

\* C36 (H2): every block header in the region, the headers of the
\* remainders that splits create included, lies at a multiple of
\* alignof(BlockHeader).
C36_HeadersAligned ==
  heap.st = "ok" => \A b \in SeqSet(Blocks(heap)) : b % HEADER_ALIGN = 0

-----------------------------------------------------------------------------
\* The order of the heap's freelist.

\* The request is served by splitting the chosen block.
Splits(h, rq) ==
  /\ rq[1] # 0 /\ Chosen(h, rq) > NULL
  /\ SizeOf(h, Chosen(h, rq)) >= Taken(h, rq) + HEADER_SIZE + MIN_BLOCK_SIZE

\* Block b is the head of the freelist, or lies inside the head block (it
\* was merged into it).
HeadHolds(h, b) ==
  /\ h.m_free_list # NULL
  /\ h.m_free_list <= b
  /\ b < h.m_free_list + HEADER_SIZE + SizeOf(h, h.m_free_list)

\* C37: right after an allocate that splits, the remainder block is the head
\* of the freelist; right after a deallocate, the freed block is the head, or
\* the head is the block it was merged into.
C37_NewestAtHead ==
  /\ heap.st = "ok" =>
        \A rq \in Requests \cup FitRequests :
          (Splits(heap, rq) /\ Served(heap, rq).st = "ok") =>
             Served(heap, rq).m_free_list
               = Chosen(heap, rq) + HEADER_SIZE + Taken(heap, rq)
  /\ (heap.st = "ok" /\ hlast.op = "deallocate") => HeadHolds(heap, hlast.hdr)

-----------------------------------------------------------------------------
\* Termination of the heap's list walks.

\* C38: every walk of the freelist ends at null: no heap operation has run
\* into a cycle or off the region, and in the state it leaves
\* free_block_count(), largest_free_block() and the fit search of every
\* request reach the end of the list.  (A caller's memset is no heap
\* operation.)
C38_WalksEnd ==
  /\ hlast.op # "fill" => heap.st \notin {"hang", "wild"}
  /\ heap.st = "ok" =>
        /\ free_block_count(heap) >= 0
        /\ largest_free_block(heap) >= 0
        /\ \A rq \in Requests : Chosen(heap, rq) \notin {HANG, WILD}

-----------------------------------------------------------------------------
\* Two heaps side by side: the same base address, capacity and strategy, the
\* same calls in the same order; the storage they were given and the bytes
\* written into their payloads differ.

TwinMaxOps == 3        \* calls per run, each made on both heaps

TwinBytes == {0, 170}

TwinInit ==
  /\ \E base \in BaseAddrs, strategy \in Strategies,
        fill \in InitBytes, other \in InitBytes :
       /\ heap = Construct(base, HeapCap, strategy, fill)
       /\ twin = Construct(base, HeapCap, strategy, other)
  /\ hlive = {} /\ tlive = {}
  /\ hlast = NoCall /\ tlast = NoCall
  /\ hops = 0
  /\ PoolAtRest /\ StackAtRest /\ MoveAtRest
  /\ ThreadsAtRest /\ AdapterAtRest

\* What the caller keeps of an allocate() call.
Kept(r, size, alignment, used, id) ==
  [ptr |-> r.ret, size |-> size, alignment |-> alignment, hdr |-> r.block,
   used_before |-> used, id |-> id]

Told(r, size, alignment, used, id) ==
  [op |-> "allocate", size |-> size, alignment |-> alignment, ptr |-> r.ret,
   block |-> r.block, hdr |-> r.block, used_before |-> used, id |-> id]

TwinAllocate(size, alignment) ==
  /\ heap.st = "ok" /\ twin.st = "ok"
  /\ hops < TwinMaxOps
  /\ heap' = allocate(heap, size, alignment).h
  /\ twin' = allocate(twin, size, alignment).h
  /\ hlive' = IF allocate(heap, size, alignment).ret # NULL /\ heap'.st = "ok"
              THEN hlive \cup {Kept(allocate(heap, size, alignment), size,
                                    alignment, heap.m_used, hops)}
              ELSE hlive
  /\ tlive' = IF allocate(twin, size, alignment).ret # NULL /\ twin'.st = "ok"
              THEN tlive \cup {Kept(allocate(twin, size, alignment), size,
                                    alignment, twin.m_used, hops)}
              ELSE tlive
  /\ hlast' = Told(allocate(heap, size, alignment), size, alignment,
                   heap.m_used, hops)
  /\ tlast' = Told(allocate(twin, size, alignment), size, alignment,
                   twin.m_used, hops)
  /\ hops' = hops + 1
  /\ UNCHANGED <<pvars, svars, mvars, tvars, avars>>

\* The same call on both heaps: the pointers the same allocate() call gave.
TwinDeallocate(a, b, how) ==
  /\ heap.st = "ok" /\ twin.st = "ok"
  /\ hops < TwinMaxOps
  /\ a.id = b.id
  /\ heap' = deallocate(heap, a.ptr, how)
  /\ twin' = deallocate(twin, b.ptr, how)
  /\ hlive' = hlive \ {a}
  /\ tlive' = tlive \ {b}
  /\ hlast' = [op |-> "deallocate", size |-> a.size, alignment |-> a.alignment,
               ptr |-> a.ptr, block |-> recover_header(heap, a.ptr, how),
               hdr |-> a.hdr, used_before |-> a.used_before, id |-> a.id]
  /\ tlast' = [op |-> "deallocate", size |-> b.size, alignment |-> b.alignment,
               ptr |-> b.ptr, block |-> recover_header(twin, b.ptr, how),
               hdr |-> b.hdr, used_before |-> b.used_before, id |-> b.id]
  /\ hops' = hops + 1
  /\ UNCHANGED <<pvars, svars, mvars, tvars, avars>>

TwinReset ==
  /\ heap.st = "ok" /\ twin.st = "ok"
  /\ hops < TwinMaxOps
  /\ heap' = reset(heap)
  /\ twin' = reset(twin)
  /\ hlive' = {} /\ tlive' = {}
  /\ hlast' = [NoCall EXCEPT !.op = "reset", !.used_before = heap.m_used]
  /\ tlast' = [NoCall EXCEPT !.op = "reset", !.used_before = twin.m_used]
  /\ hops' = hops + 1
  /\ UNCHANGED <<pvars, svars, mvars, tvars, avars>>

\* The caller of the first heap memsets the size bytes it asked for; the
\* caller of the second leaves its payload as it is.
TwinFill(a, v) ==
  /\ heap.st = "ok" /\ twin.st = "ok"
  /\ hops < TwinMaxOps
  /\ heap' = memset(heap, a.ptr, v, a.size)
  /\ hlast' = [NoCall EXCEPT !.op = "fill", !.ptr = a.ptr, !.size = a.size,
                             !.used_before = heap.m_used]
  /\ tlast' = [NoCall EXCEPT !.op = "fill", !.used_before = twin.m_used]
  /\ hops' = hops + 1
  /\ UNCHANGED <<hlive, twin, tlive, pvars, svars, mvars, tvars, avars>>

TwinNext ==
  \/ \E rq \in Requests : TwinAllocate(rq[1], rq[2])
  \/ \E a \in hlive, b \in tlive, how \in BoolReads : TwinDeallocate(a, b, how)
  \/ TwinReset
  \/ \E a \in hlive, v \in TwinBytes : TwinFill(a, v)

SpecTwin == TwinInit /\ [][TwinNext]_vars

\* C39: two heaps with the same base address, capacity and strategy that get
\* the same calls return the same pointers and report the same used_size(),
\* free_block_count() and largest_free_block() after every call, whatever
\* their regions held at first and whatever was written into the payloads.
\* (After a caller's write only the reports are compared: the write is made
\* on one heap alone.)
C39_TwinsAgree ==
  /\ hlast.op # "fill" => heap.st = twin.st
  /\ hlast.ptr = tlast.ptr \/ hlast.op = "fill"
  /\ (heap.st = "ok" /\ twin.st = "ok") =>
        /\ used_size(heap) = used_size(twin)
        /\ free_block_count(heap) = free_block_count(twin)
        /\ largest_free_block(heap) = largest_free_block(twin)

-----------------------------------------------------------------------------
\* The heap and the bump engine under requests from the whole range of
\* size_t: a size written as a negative number stands for 2^64 plus it.

WideMaxOps == 3        \* calls per run, over both engines

\* Sizes of 2^64 - 8, 2^64 - 4 and 2^64 - 24 with alignments that do or do
\* not leave padding in front of them, among ordinary requests.
WideRequests == {<<-8, 16>>, <<-8, 1>>, <<-4, 16>>, <<-24, 32>>,
                 <<16, 1>>, <<8, 16>>, <<200, 1>>}

WideInit ==
  /\ \E base \in BaseAddrs, strategy \in Strategies :
       heap = Construct(base, HeapCap, strategy, 170)
  /\ hlive = {}
  /\ hlast = NoCall
  /\ hops = 0
  /\ \E base \in BaseAddrs : stack = StackConstruct(base, StackCap, TRUE, FALSE)
  /\ slast = NoStackCall
  /\ strail = NoTrail
  /\ sops = 0
  /\ PoolAtRest /\ MoveAtRest
  /\ ThreadsAtRest /\ AdapterAtRest /\ TwinAtRest

WideHeapAllocate(size, alignment) ==
  /\ hops + sops < WideMaxOps
  /\ AllocateWithin(WideMaxOps, size, alignment)

WideHeapDeallocate(a, how) ==
  /\ hops + sops < WideMaxOps
  /\ DeallocateWithin(WideMaxOps, a, how)

WideBumpAllocate(size, alignment) ==
  /\ stack.st = "ok"
  /\ hops + sops < WideMaxOps
  /\ stack' = stack_allocate(stack, size, alignment).s
  /\ slast' = [op |-> "allocate", size |-> size, alignment |-> alignment,
               ptr |-> stack_allocate(stack, size, alignment).ret,
               offset_before |-> stack.m_offset]
  /\ sops' = sops + 1
  /\ UNCHANGED <<strail, hvars, pvars, mvars, tvars, avars, wvars>>

WideBumpReset ==
  /\ stack.st = "ok"
  /\ hops + sops < WideMaxOps
  /\ stack' = stack_reset(stack)
  /\ slast' = [NoStackCall EXCEPT !.op = "reset", !.offset_before = stack.m_offset]
  /\ sops' = sops + 1
  /\ UNCHANGED <<strail, hvars, pvars, mvars, tvars, avars, wvars>>

WideNext ==
  \/ \E rq \in WideRequests : WideHeapAllocate(rq[1], rq[2])
  \/ \E a \in hlive, how \in BoolReads : WideHeapDeallocate(a, how)
  \/ \E rq \in WideRequests : WideBumpAllocate(rq[1], rq[2])
  \/ WideBumpReset

SpecWide == WideInit /\ [][WideNext]_vars

\* The padding the bump engine puts in front of a request at its cursor.
BumpPad(sa, alignment) == calc_padding(sa.m_memory + sa.m_offset, alignment)

\* No block of the freelist holds the request with its own padding, in
\* exact arithmetic.
NoneHolds(h, rq) ==
  \A b \in SeqSet(FreeList(h)) :
    ExactOver(calc_padding(b + HEADER_SIZE, rq[2]), FitSize(rq[1]), SizeOf(h, b))

\* C40: for every size of the unsigned word range, the bump allocate returns
\* null and leaves the cursor where it is whenever the exact sum cursor + pad
\* + size exceeds cap, and the heap allocate returns null whenever the exact
\* sum pad_b + size exceeds b.size for every free block b, sizes whose
\* machine sums wrap included.
C40_OversizedRefused ==
  /\ stack.st = "ok" =>
        \A rq \in WideRequests :
          ExactOver(stack.m_offset + BumpPad(stack, rq[2]), rq[1], stack.m_size) =>
             /\ stack_allocate(stack, rq[1], rq[2]).ret = NULL
             /\ stack_allocate(stack, rq[1], rq[2]).s = stack
  /\ (heap.st = "ok" /\ free_block_count(heap) >= 0) =>
        \A rq \in WideRequests :
          NoneHolds(heap, rq) => allocate(heap, rq[1], rq[2]).ret = NULL

=============================================================================
